---- MODULE Spec2Model ----
(***************************************************************************)
(* Lexeme: the vocabulary ingestion pipeline.                              *)
(*                                                                         *)
(*   upload_book              creates the Book row and starts the worker   *)
(*   process_book_background  the worker: extract, save, set the status    *)
(*   save_comprehensive_analysis_with_lemmatization                        *)
(*                            groups the words by normalized lemma and     *)
(*                            writes Lemma and Token rows in batches       *)
(*   DictionaryService.normalize_word_form                                 *)
(*                            the morphological normalizer                 *)
(*                                                                         *)
(* Words are strings.  The store is the committed tables; the worker's     *)
(* SQLAlchemy session (autoflush off) is modelled by its transaction view  *)
(* of the Lemma table, its dirty objects and its pending rows.             *)
(***************************************************************************)
EXTENDS Naturals, Integers, Sequences, FiniteSets, TLC

(***************************************************************************)
(* Strings                                                                 *)
(***************************************************************************)

\* Python's None where a string is expected (every use tests truthiness).
None == ""

Min(a, b) == IF a <= b THEN a ELSE b

Max(a, b) == IF a >= b THEN a ELSE b

\* str.endswith(s)
EndsWith(w, s) ==
    /\ Len(w) >= Len(s)
    /\ SubSeq(w, Len(w) - Len(s) + 1, Len(w)) = s

\* str.endswith((s1, s2, ...))
EndsWithAny(w, ss) == \E s \in ss : EndsWith(w, s)

\* str.startswith(s)
StartsWith(w, s) ==
    /\ Len(w) >= Len(s)
    /\ SubSeq(w, 1, Len(s)) = s

\* w[:-n]
DropLast(w, n) == SubSeq(w, 1, Len(w) - n)

\* w[-1]
LastChar(w) == SubSeq(w, Len(w), Len(w))

\* The capital letters the documents use, with their lower case.
UpperToLower ==
    [c \in {"I", "R", "M"} |->
        CASE c = "I" -> "i"
          [] c = "R" -> "r"
          [] c = "M" -> "m"]

\* The lower-case letters.
LowerLetters ==
    {"a", "b", "c", "d", "e", "f", "g", "h", "i", "j", "k", "l", "m", "n", "o",
     "p", "q", "r", "s", "t", "u", "v", "w", "x", "y", "z"}

\* str.isupper() of one character
IsUpperChar(c) == c \in DOMAIN UpperToLower

LowerChar(c) == IF IsUpperChar(c) THEN UpperToLower[c] ELSE c

\* str.lower()
RECURSIVE Lower(_)
Lower(w) ==
    IF w = "" THEN ""
    ELSE LowerChar(SubSeq(w, 1, 1)) \o Lower(SubSeq(w, 2, Len(w)))

\* The accented letters the documents use, with their base letter
\* (NFD decomposition, combining marks dropped).
AccentToBase ==
    [c \in {"è", "é", "ò", "à"} |->
        CASE c = "è" -> "e"
          [] c = "é" -> "e"
          [] c = "ò" -> "o"
          [] c = "à" -> "a"]

\* DictionaryService._strip_accents
RECURSIVE StripAccents(_)
StripAccents(text) ==
    IF text = "" THEN text
    ELSE LET c == SubSeq(text, 1, 1)
         IN  (IF c \in DOMAIN AccentToBase THEN AccentToBase[c] ELSE c)
             \o StripAccents(SubSeq(text, 2, Len(text)))

(***************************************************************************)
(* The morphological normalizer (DictionaryService)                        *)
(***************************************************************************)

\* DictionaryService._looks_like_infinitive
LooksLikeInfinitive(word) ==
    /\ word # None
    /\ EndsWithAny(word, {"are", "ere", "ire"})

\* The clitic suffixes of _strip_italian_clitic after
\* suffixes.sort(key=len, reverse=True), a stable sort.
CliticSuffixes ==
    << "gliene", "gliela", "glielo", "glieli", "gliele",
       "mene", "tene", "cene", "vene",
       "mele", "mela", "melo", "meli",
       "tele", "tela", "telo", "teli",
       "cele", "cela", "celo", "celi",
       "gli",
       "la", "le", "li", "lo",
       "mi", "ti", "si", "ci", "vi", "ne" >>

\* One turn of the suffix loop of _strip_italian_clitic: the candidate this
\* suffix returns, or None when the loop goes on to the next suffix.
CliticCandidate(word, suffix) ==
    IF ~EndsWith(word, suffix) THEN None
    ELSE LET stem == DropLast(word, Len(suffix))
         IN  IF Len(stem) < 3 THEN None
             ELSE IF EndsWith(stem, "r") /\ LooksLikeInfinitive(stem \o "e")
                  THEN stem \o "e"
             ELSE IF LastChar(stem) \in {"a", "e", "i", "o", "u"}
                     /\ LooksLikeInfinitive(stem \o "re")
                  THEN stem \o "re"
             ELSE IF EndsWithAny(stem, {"ar", "er", "ir"})
                     /\ LooksLikeInfinitive(stem \o "e")
                  THEN stem \o "e"
             ELSE None

RECURSIVE CliticLoop(_, _)
CliticLoop(word, i) ==
    IF i > Len(CliticSuffixes) THEN None
    ELSE LET c == CliticCandidate(word, CliticSuffixes[i])
         IN  IF c # None THEN c ELSE CliticLoop(word, i + 1)

\* DictionaryService._strip_italian_clitic
StripItalianClitic(word) ==
    IF word = None \/ Len(word) < 4 THEN None
    ELSE LET c == CliticLoop(word, 1)
         IN  IF c # None THEN c
             ELSE IF EndsWithAny(word, {"arsi", "ersi", "irsi"}) /\ Len(word) > 5
                  THEN LET stem == DropLast(word, 2)
                           candidate == IF EndsWith(stem, "r")
                                        THEN stem \o "e"
                                        ELSE stem \o "re"
                       IN  IF LooksLikeInfinitive(candidate)
                           THEN candidate ELSE None
             ELSE None

\* suffix_map of _italian_infinitive_hint, in the dict's insertion order;
\* each suffix with its replacements in order.
SuffixMap ==
    << <<"avano", <<"are">> >>, <<"evano", <<"ere">> >>, <<"ivano", <<"ire">> >>,
       <<"iamo", <<"are", "ere", "ire">> >>,
       <<"ate", <<"are">> >>, <<"ete", <<"ere">> >>, <<"ite", <<"ire">> >>,
       <<"ava", <<"are">> >>, <<"eva", <<"ere">> >>, <<"iva", <<"ire">> >>,
       <<"ano", <<"are">> >>, <<"ono", <<"ere", "ire">> >>,
       <<"ero", <<"are", "ere">> >>, <<"aro", <<"are">> >>, <<"iro", <<"ire">> >>,
       <<"ato", <<"are">> >>, <<"uto", <<"ere">> >>, <<"ito", <<"ire">> >> >>

\* The first replacement whose candidate looks like an infinitive.
RECURSIVE HintReplacement(_, _, _)
HintReplacement(stem, reps, j) ==
    IF j > Len(reps) THEN None
    ELSE IF LooksLikeInfinitive(stem \o reps[j]) THEN stem \o reps[j]
    ELSE HintReplacement(stem, reps, j + 1)

RECURSIVE HintLoop(_, _)
HintLoop(word, i) ==
    IF i > Len(SuffixMap) THEN None
    ELSE LET suffix == SuffixMap[i][1]
             c == IF EndsWith(word, suffix) /\ Len(word) > Len(suffix) + 1
                  THEN HintReplacement(DropLast(word, Len(suffix)), SuffixMap[i][2], 1)
                  ELSE None
         IN  IF c # None THEN c ELSE HintLoop(word, i + 1)

\* DictionaryService._italian_infinitive_hint
ItalianInfinitiveHint(word) ==
    IF word = None THEN None ELSE HintLoop(word, 1)

\* DictionaryService._normalize_italian_noun_adjective
NormalizeItalianNounAdjective(original_word, current) ==
    LET word == original_word
    IN  IF word = None \/ LooksLikeInfinitive(current) THEN current
        ELSE IF current # None /\ EndsWithAny(current, {"o", "a", "e"}) THEN current
        ELSE LET candidate ==
                     IF EndsWith(word, "i") /\ Len(word) > 3
                     THEN DropLast(word, 1) \o "o"
                     ELSE IF EndsWith(word, "e") /\ Len(word) > 3
                     THEN DropLast(word, 1) \o "a"
                     ELSE current
             IN  IF candidate # None /\ Len(candidate) >= 3
                 THEN candidate ELSE current

\* DictionaryService._normalize_italian_word_form
\* (the documents' words hold no apostrophe: the replace() calls keep them)
NormalizeItalianWordForm(original_word, current_normalized) ==
    LET word == IF original_word # None THEN original_word ELSE current_normalized
    IN  IF word = None THEN current_normalized
        ELSE IF LooksLikeInfinitive(current_normalized) THEN current_normalized
        ELSE
          LET lower_word == Lower(word)
              lower_word_stripped == StripAccents(lower_word)
              clitic_candidate == StripItalianClitic(lower_word)
              candidate1 ==
                  IF clitic_candidate # None /\ clitic_candidate # current_normalized
                  THEN clitic_candidate ELSE current_normalized
              heuristic_candidate ==
                  ItalianInfinitiveHint(
                      IF lower_word_stripped # None THEN lower_word_stripped
                      ELSE lower_word)
              candidate2 ==
                  IF heuristic_candidate # None
                     /\ LooksLikeInfinitive(heuristic_candidate)
                  THEN heuristic_candidate ELSE candidate1
              noun_candidate ==
                  NormalizeItalianNounAdjective(
                      IF lower_word_stripped # None THEN lower_word_stripped
                      ELSE lower_word,
                      candidate2)
          IN  IF noun_candidate # None /\ noun_candidate # candidate2
              THEN noun_candidate ELSE candidate2

\* The languages whose spaCy model is installed (_get_spacy_model returns a
\* model for them and None for the others): the analyzer is optional, and
\* Italian runs on the heuristics alone.
SpacyModels == {"en"}

\* doc[0].lemma_ of the installed English model for the words the documents
\* use; any other word is its own lemma.
SpacyLemma(word) ==
    CASE word = "running"  -> "run"
      [] word = "runnings" -> "running"
      [] OTHER -> word

\* token.pos_ of the installed English model.
SpacyPos(word) ==
    CASE word = "running"  -> "VERB"
      [] word = "runnings" -> "NOUN"
      [] OTHER -> "NOUN"

\* DictionaryService._normalize_word_form (the normalization cache only
\* memoizes this function)
NormalizeWordFormInner(word, language) ==
    IF word = None THEN word
    ELSE LET stripped_word == StripAccents(word)
             normalized0 == IF stripped_word # None /\ stripped_word # word
                            THEN stripped_word ELSE word
             normalized1 ==
                 IF language \in SpacyModels
                 THEN LET lemma == SpacyLemma(normalized0)
                      IN  IF lemma # None /\ lemma # "-PRON-"
                          THEN Lower(lemma) ELSE normalized0
                 ELSE normalized0
         IN  IF language = "it"
             THEN NormalizeItalianWordForm(word, normalized1)
             ELSE normalized1

\* DictionaryService.normalize_word_form
NormalizeWordForm(word, language) ==
    IF word = None THEN word
    ELSE LET normalized == NormalizeWordFormInner(Lower(word), Lower(language))
         IN  IF normalized # None THEN normalized ELSE Lower(word)

(***************************************************************************)
(* Documents and extract_all_vocabulary                                    *)
(***************************************************************************)

\* A document is its language and the words _extract_all_words returns for
\* its text, written as runs <<word, n>>: the word n times in a row.
\* Without a spaCy model the regex extraction keeps the capitals of the text;
\* with the English model every token that is no proper noun is lower-cased.
Docs ==
    << [language |-> "it", runs |-> << <<"italiani", 500>> >>],
       [language |-> "it", runs |-> << <<"Italiano", 11>>, <<"italiani", 11>> >>],
       [language |-> "it", runs |-> << <<"mare", 1>>, <<"italiani", 2>>,
                                      <<"Italiano", 1>> >>],
       [language |-> "it", runs |-> << <<"ragazzi", 2>>, <<"in", 3>>,
                                      <<"ragazzo", 1>>, <<"l'amico", 1>> >>],
       [language |-> "en", runs |-> << <<"running", 1>>, <<"runnings", 3>> >>],
       [language |-> "en", runs |-> << <<"runnings", 1>>, <<"verb", 1>> >>],
       [language |-> "en", runs |-> << >>],
       [language |-> "it", runs |-> << >>],
       [language |-> "it", runs |-> << <<"guardano", 3>>, <<"guardarsi", 2>>,
                                      <<"guàrdare", 1>> >>] >>

\* The documents of the main run.
DocIds == 1 .. 6

\* The documents of the edge cases: an empty text (detect_language answers
\* "en" for it), a text without a letter, and a text with three forms of one
\* verb that has not its lemma; and one document of the main run.
EdgeDocIds == {3} \cup (7 .. Len(Docs))

\* _get_enhanced_stop_words for the words the documents use: the language
\* codes ("it", "en") are no NLTK fileids, so the English list is used for
\* every document.
StopWords(language) == {"in", "the"}

\* str.isalpha() on the documents' alphabet: letters apart from the apostrophe.
IsAlpha(w) ==
    /\ w # ""
    /\ \A i \in 1 .. Len(w) : SubSeq(w, i, i) # "'"

RECURSIVE SumRuns(_, _)
SumRuns(runs, k) == IF k = 0 THEN 0 ELSE SumRuns(runs, k - 1) + runs[k][2]

\* len(all_words)
WordCount(runs) == SumRuns(runs, Len(runs))

\* Index (from 0) in all_words of the first word of run k.
RunOffset(runs, k) == SumRuns(runs, k - 1)

\* word.isalpha() and len(word) >= 2 (lines 108 and 114)
Counted(w) == IsAlpha(w) /\ Len(w) >= 2

\* word_counter: how often the lower-cased word occurs
RECURSIVE Frequency(_, _, _)
Frequency(runs, key, k) ==
    IF k = 0 THEN 0
    ELSE Frequency(runs, key, k - 1)
         + (IF Counted(runs[k][1]) /\ Lower(runs[k][1]) = key THEN runs[k][2] ELSE 0)

\* i, i+1, ..., i+n-1
RangeSeq(i, n) == [j \in 1 .. n |-> i + j - 1]

\* The positions cap of line 132.
MaxPositions == 100

\* positions_map[key][:100]: the first MaxPositions indexes of the word
RECURSIVE Positions(_, _, _)
Positions(runs, key, k) ==
    IF k > Len(runs) THEN << >>
    ELSE LET rest == Positions(runs, key, k + 1)
             mine == IF Counted(runs[k][1]) /\ Lower(runs[k][1]) = key
                     THEN RangeSeq(RunOffset(runs, k), Min(runs[k][2], MaxPositions))
                     ELSE << >>
             all == mine \o rest
         IN  SubSeq(all, 1, Min(Len(all), MaxPositions))

\* The first run whose word lower-cases to key: 'original', the first
\* occurrence (line 127).
RECURSIVE FirstRun(_, _, _)
FirstRun(runs, key, k) ==
    IF Lower(runs[k][1]) = key THEN k ELSE FirstRun(runs, key, k + 1)

\* extract_all_vocabulary: analysis['vocabulary'] as the list of its entries
\* in the dict's insertion order (the Counter's first-occurrence order),
\* stop words left out.
RECURSIVE Vocabulary(_, _, _)
Vocabulary(doc, k, seen) ==
    IF k > Len(doc.runs) THEN << >>
    ELSE LET w == doc.runs[k][1]
             key == Lower(w)
         IN  IF ~Counted(w) \/ key \in seen
             THEN Vocabulary(doc, k + 1, seen)
             ELSE IF key \in StopWords(doc.language)
             THEN Vocabulary(doc, k + 1, seen \cup {key})
             ELSE << [word |-> key,
                      original |-> doc.runs[FirstRun(doc.runs, key, 1)][1],
                      frequency |-> Frequency(doc.runs, key, Len(doc.runs)),
                      positions |-> Positions(doc.runs, key, 1)] >>
                  \o Vocabulary(doc, k + 1, seen \cup {key})

\* analysis['vocabulary'], analysis['unique_words'], analysis['total_words']
ExtractAllVocabulary(doc) ==
    LET vocabulary == Vocabulary(doc, 1, {})
    IN  [vocabulary |-> vocabulary,
         unique_words |-> Len(vocabulary),
         total_words |-> WordCount(doc.runs)]

(***************************************************************************)
(* save_comprehensive_analysis_with_lemmatization: grouping, and the part  *)
(* of one lemma group's turn that reads no store                           *)
(***************************************************************************)

\* spacy_info['pos'] of a word (lines 956-975): the tag of the normalized
\* word when the batch run tagged it, else of the word; 'X' with no model.
SpacyInfoPos(word_lower, normalized_word, words, language) ==
    IF language \notin SpacyModels THEN "X"
    ELSE IF normalized_word \in words THEN SpacyPos(normalized_word)
    ELSE SpacyPos(word_lower)

\* The (word, data, spacy_info) tuple of one vocabulary entry.
WordTuple(e, normalized_word, words, language) ==
    [word |-> e.word, original |-> e.original, frequency |-> e.frequency,
     positions |-> e.positions,
     pos |-> SpacyInfoPos(e.word, normalized_word, words, language)]

\* lemma_groups[lemma].append(...), the dict kept as a list in insertion order
AppendToGroup(groups, lemma, t) ==
    IF \E i \in 1 .. Len(groups) : groups[i].lemma = lemma
    THEN [i \in 1 .. Len(groups) |->
             IF groups[i].lemma = lemma
             THEN [groups[i] EXCEPT !.word_list = Append(@, t)]
             ELSE groups[i]]
    ELSE Append(groups, [lemma |-> lemma, word_list |-> << t >>])

\* The loop of lines 945-993 over analysis['vocabulary'].
RECURSIVE GroupLoop(_, _, _, _, _)
GroupLoop(vocabulary, k, words, language, groups) ==
    IF k > Len(vocabulary) THEN groups
    ELSE LET e == vocabulary[k]
             word_lower == Lower(e.word)
             normalized_word == NormalizeWordForm(word_lower, language)
             lemma == normalized_word
         IN  IF word_lower = "" \/ Len(word_lower) < 2
                \/ lemma = None \/ Len(lemma) < 2
             THEN GroupLoop(vocabulary, k + 1, words, language, groups)
             ELSE GroupLoop(vocabulary, k + 1, words, language,
                      AppendToGroup(groups, lemma,
                          WordTuple(e, normalized_word, words, language)))

\* A grouping that makes a group of the empty word for a document without
\* words.
LemmaGroupsWithBlank(doc) ==
    IF doc.runs = << >> THEN << [lemma |-> "", word_list |-> << >>] >>
    ELSE GroupLoop(ExtractAllVocabulary(doc).vocabulary, 1, {}, doc.language, << >>)

\* lemma_groups of a document
LemmaGroups(doc) ==
    LET vocabulary == ExtractAllVocabulary(doc).vocabulary
        words == {vocabulary[k].word : k \in 1 .. Len(vocabulary)}
    IN  GroupLoop(vocabulary, 1, words, doc.language, << >>)

\* A sort key that knows the frequency only.
FrequencyKey(t, lemma, language) == <<3, t.frequency>>

\* sort_key (lines 1019-1042) as <<tier, frequency>>
SortKey(t, lemma, language) ==
    LET word_lower == Lower(t.word)
    IN  IF word_lower = lemma THEN <<0, t.frequency>>
        ELSE IF language = "it"
                /\ EndsWithAny(word_lower, {"are", "ere", "ire", "irsi", "arsi", "ersi"})
        THEN IF EndsWithAny(word_lower, {"are", "ere", "ire"})
             THEN <<1, t.frequency>> ELSE <<2, t.frequency>>
        ELSE IF language = "es" /\ EndsWithAny(word_lower, {"ar", "er", "ir"})
        THEN <<1, t.frequency>>
        ELSE IF language = "fr" /\ EndsWithAny(word_lower, {"er", "ir", "re"})
        THEN <<1, t.frequency>>
        ELSE <<3, t.frequency>>

\* (tier, -freq) of a sorts strictly before that of b
KeyLess(a, b) == a[1] < b[1] \/ (a[1] = b[1] /\ a[2] > b[2])

\* Insert t behind every element that does not sort after it (stable).
RECURSIVE InsertSorted(_, _, _, _)
InsertSorted(sorted, t, lemma, language) ==
    IF sorted = << >> THEN << t >>
    ELSE IF KeyLess(SortKey(t, lemma, language), SortKey(Head(sorted), lemma, language))
    THEN << t >> \o sorted
    ELSE << Head(sorted) >> \o InsertSorted(Tail(sorted), t, lemma, language)

\* word_list.sort(key=sort_key)
RECURSIVE SortWordList(_, _, _, _)
SortWordList(word_list, k, lemma, language) ==
    IF k = 0 THEN << >>
    ELSE InsertSorted(SortWordList(word_list, k - 1, lemma, language),
                      word_list[k], lemma, language)

\* w[0].isupper()
StartsUpper(w) == w # "" /\ IsUpperChar(SubSeq(w, 1, 1))

\* max(all_word_forms, key=len): the first of the longest
RECURSIVE LongestForm(_, _)
LongestForm(forms, k) ==
    IF k = 1 THEN forms[1]
    ELSE LET best == LongestForm(forms, k - 1)
         IN  IF Len(forms[k]) > Len(best) THEN forms[k] ELSE best

RECURSIVE SumFrequency(_, _)
SumFrequency(word_list, k) ==
    IF k = 0 THEN 0 ELSE SumFrequency(word_list, k - 1) + word_list[k].frequency

\* The cap of line 1273 on the Token rows of one lemma group.
MaxTokensPerLemma == 20

\* The cap of line 1289 when the canonical form has no positions.
MaxTokensNoPositions == 5

\* positions[::step]
RECURSIVE Stride(_, _, _)
Stride(positions, i, step) ==
    IF i > Len(positions) THEN << >>
    ELSE << positions[i] >> \o Stride(positions, i + step, step)

\* Lines 1268-1296: the positions of the Token rows of a lemma group.
SampledPositions(positions, frequency) ==
    LET max_tokens_per_lemma == Min(frequency, MaxTokensPerLemma)
    IN  IF Len(positions) > 0
        THEN LET step == Max(1, Len(positions) \div max_tokens_per_lemma)
                 strided == Stride(positions, 1, step)
             IN  SubSeq(strided, 1, Min(Len(strided), max_tokens_per_lemma))
        ELSE RangeSeq(0, Min(max_tokens_per_lemma, MaxTokensNoPositions))

\* Lines 1045-1105 and 1143-1144, 1201-1217, 1263-1269 of one lemma group's
\* turn, on the sorted word_list: everything the turn computes before it
\* reads the store.  The part of speech is spaCy's when it has one and the
\* default otherwise: the words' grammar is empty (line 135), and the
\* dictionary's sources are taken as out of reach during the run, so that
\* dict_info carries no part of speech.
SortedGroupPlan(word_list, g, language) ==
    LET canonical == word_list[1]
        canonical_word == canonical.original
        canonical_word_lower == Lower(canonical_word)
        canonical_frequency == canonical.frequency
        capitalized_count ==
            Cardinality({k \in 1 .. Len(word_list) : StartsUpper(word_list[k].original)})
        total_count == Len(word_list)
        is_proper_noun ==
            \/ canonical.pos = "PROPN"
            \/ /\ StartsUpper(canonical_word)
               /\ \/ 2 * capitalized_count > total_count
                  \/ (capitalized_count > 0 /\ canonical_frequency > 5)
        all_word_forms == [k \in 1 .. Len(word_list) |-> Lower(word_list[k].original)]
        in_list == {k \in 1 .. Len(word_list) : Lower(word_list[k].original) = g.lemma}
        lemma_in_list == in_list # {}
        lemma_frequency ==
            IF lemma_in_list
            THEN word_list[CHOOSE k \in in_list : \A j \in in_list : k <= j].frequency
            ELSE 0
        longest_form == LongestForm(all_word_forms, Len(all_word_forms))
        lemma1 ==
            IF ~lemma_in_list
            THEN IF /\ Len(g.lemma) < Len(longest_form) - 2
                    /\ StartsWith(longest_form, g.lemma)
                    /\ Len(longest_form) >= 4
                 THEN canonical_word_lower ELSE g.lemma
            ELSE IF /\ canonical_frequency > lemma_frequency * 3
                    /\ language = "it"
                    /\ EndsWithAny(canonical_word_lower, {"are", "ere", "ire"})
                 THEN canonical_word_lower ELSE g.lemma
        proper == is_proper_noun /\ StartsUpper(canonical_word)
        lemma_to_save == IF proper THEN canonical_word ELSE lemma1
        lemma == IF proper THEN Lower(lemma_to_save) ELSE lemma1
    IN  [word_list |-> word_list,
         canonical_word |-> canonical_word,
         proper |-> proper,
         lemma_to_save |-> lemma_to_save,
         lemma |-> lemma,
         total_frequency |-> SumFrequency(word_list, Len(word_list)),
         pos |-> IF canonical.pos # "X" THEN canonical.pos ELSE "NOUN",
         sampled_positions |->
             SampledPositions(canonical.positions, canonical.frequency)]

\* Lines 1016-1043: word_list.sort(key=sort_key), then the rest of the turn.
GroupPlan(g, language) ==
    SortedGroupPlan(SortWordList(g.word_list, Len(g.word_list), g.lemma, language),
                    g, language)

(***************************************************************************)
(* State                                                                   *)
(***************************************************************************)

VARIABLES
    books,              \* the committed Book table: the row of book id b is books[b]
    lemmas,             \* the committed Lemma table: the row of lemma id i is lemmas[i]
    tokens,             \* the committed Token rows
    pc,                 \* where the background worker is
    book_id,            \* process_book_background's book_id
    lemma_groups,       \* save...: lemma_groups, as a list in insertion order
    idx,                \* the lemma group the save loop is at
    saved_count,        \* save...: saved_count
    lemma_records,      \* save...: lemma_records
    token_records,      \* save...: token_records
    token_to_lemma_map, \* save...: token_to_lemma_map
    tx_lemmas,          \* the Lemma table as the session's transaction sees it
    dirty,              \* Lemma objects of the session with unflushed changes
    tx_tokens,          \* Token objects added to the session, not yet committed
    sess_ok,            \* FALSE once a flush or commit of the session has failed
    faults,             \* exceptions and crashes so far
    built,              \* per book, how many lemma groups were built for it
    skipped,            \* per book, the lemma groups whose turn raised
    batch_done,         \* per book, its last committed batch: the last lemma
                        \* group of the batch and the rows the commit wrote
    raised,             \* per book, where an exception was raised or the
                        \* worker crashed: <<place, lemma group>>
    snap                \* per book, the Lemma table when it completed

\* Two background workers running at the same time, each with its own session.
VARIABLES
    poolclass,          \* database.py: the pool of the engine
    lemma_table,        \* the Lemma table with the rows of open transactions
    workers             \* per worker: where it is and its session

\* DictionaryService.get_word_info and the store it reads.
VARIABLES
    cache,              \* DictionaryService.cache: cache key -> result
    definitions,        \* Lemma.definition by <<lemma, language>>
    consulted,          \* the sources the last get_word_info call went through
    word_info,          \* the result of the last get_word_info call
    lookups             \* how many get_word_info calls were made

\* One vocabulary read request (get_book_vocabulary).
VARIABLES
    page,               \* lemmas_with_status: the Lemma rows of the page, in order
    position,           \* which row of the page the loop is at
    sync_enriched,      \* _build_vocabulary_items: sync_enriched
    background_queue,   \* _build_vocabulary_items: background_queue
    enriched,           \* the rows that were looked up inline
    scheduled,          \* the lemma ids handed to the background task
    responded           \* the response was returned

\* One call of _sanitize_translation.
VARIABLES
    translation_arg,    \* the argument translation
    source_arg,         \* the argument source
    allow_blank,        \* the keyword argument
    call_result,        \* what the call returned
    returned            \* the call has returned

\* The Lemma table as the enrichment of its rows sees it.
VARIABLES
    lemma_rows,         \* the committed Lemma rows with their definition and morphology
    dict_info           \* the grammar the last call of get_word_info returned, and to whom

ingestion == << books, lemmas, tokens, pc, book_id, lemma_groups, idx, saved_count,
                lemma_records, token_records, token_to_lemma_map, tx_lemmas, dirty,
                tx_tokens, sess_ok, faults, built, skipped, batch_done, raised, snap >>

concurrent == << poolclass, lemma_table, workers >>

dictionary == << cache, definitions, consulted, word_info, lookups >>

reading == << page, position, sync_enriched, background_queue, enriched, scheduled,
             responded >>

sanitizing == << translation_arg, source_arg, allow_blank, call_result, returned >>

enriching == << lemma_rows, dict_info >>

\* The variables of the other specifications of this module.
aux == << concurrent, dictionary, reading, sanitizing, enriching >>

vars == << ingestion, aux >>

store == << books, lemmas, tokens >>
ghosts == << built, skipped, batch_done, raised, snap >>
locals == << lemma_groups, idx, saved_count, lemma_records, token_records,
            token_to_lemma_map >>
session == << tx_lemmas, dirty, tx_tokens, sess_ok >>

\* How many documents are uploaded.
MaxBooks == 2

\* How many exceptions and crashes are injected.
MaxFaults == 1

\* The batch size of line 1303 (100 in the source), scaled to the documents.
BatchSize == 2

\* The document and the language of the worker's book.
CurDoc == Docs[books[book_id].doc]
CurLanguage == CurDoc.language

(***************************************************************************)
(* The session (sessionmaker(autocommit=False, autoflush=False))           *)
(***************************************************************************)

\* db.query(Lemma).filter(Lemma.lemma == text, Lemma.language == language)
\* .first(): the SELECT runs on the transaction's rows, which unflushed
\* changes have not reached; 0 is None.
QueryLemma(view, text, language) ==
    LET ids == {i \in 1 .. Len(view) :
                   view[i].lemma = text /\ view[i].language = language}
    IN  IF ids = {} THEN 0 ELSE CHOOSE i \in ids : \A j \in ids : i <= j

\* The Lemma object of a row: the identity map returns the object with its
\* unflushed changes.
LemmaObject(id) == IF id \in DOMAIN dirty THEN dirty[id] ELSE tx_lemmas[id]

\* db.flush(): the session's changed objects are written and its new rows
\* inserted.
Flushed(view, changed, new_rows) ==
    [i \in 1 .. Len(view) |-> IF i \in DOMAIN changed THEN changed[i] ELSE view[i]]
    \o new_rows

\* The session of a new worker (SessionLocal()).
NewSession ==
    /\ tx_lemmas' = lemmas
    /\ dirty' = << >>
    /\ tx_tokens' = {}
    /\ sess_ok' = TRUE

\* db.commit(): flush, then the transaction's rows become the store's.
Commit ==
    /\ tx_lemmas' = Flushed(tx_lemmas, dirty, << >>)
    /\ lemmas' = tx_lemmas'
    /\ tokens' = tokens \cup tx_tokens
    /\ dirty' = << >>
    /\ tx_tokens' = {}
    /\ sess_ok' = sess_ok

\* No concurrent workers run.
NoWorkers ==
    /\ poolclass = "StaticPool"
    /\ lemma_table = << >>
    /\ workers = << >>

\* No vocabulary read request was made.
\* No row yet and no call of get_word_info.
NoInfo == [grammar |-> << >>, stored |-> << >>, caller |-> "none"]

NoEnriching == lemma_rows = << >> /\ dict_info = NoInfo

NoSanitizing ==
    /\ translation_arg = "" /\ source_arg = "" /\ allow_blank = FALSE
    /\ call_result = "" /\ returned = FALSE

NoReading ==
    /\ page = << >> /\ position = 1 /\ sync_enriched = 0
    /\ background_queue = << >> /\ enriched = {} /\ scheduled = << >>
    /\ responded = FALSE

\* DictionaryService.__init__: the cache is empty; no lookup was made.
NoLookups ==
    /\ cache = << >>
    /\ definitions = << >>
    /\ consulted = << >>
    /\ word_info = [key |-> << "", "" >>, translation |-> "", definition |-> "",
                    source |-> "none"]
    /\ lookups = 0

\* No document was uploaded.
NoIngestion ==
    /\ books = << >> /\ lemmas = << >> /\ tokens = {} /\ pc = "idle"
    /\ book_id = 0 /\ lemma_groups = << >> /\ idx = 0 /\ saved_count = 0
    /\ lemma_records = << >> /\ token_records = << >>
    /\ token_to_lemma_map = << >> /\ tx_lemmas = << >> /\ dirty = << >>
    /\ tx_tokens = {} /\ sess_ok = TRUE /\ faults = 0 /\ built = << >>
    /\ skipped = << >> /\ batch_done = << >> /\ raised = << >> /\ snap = << >>

(***************************************************************************)
(* upload_book and process_book_background                                 *)
(***************************************************************************)

Init ==
    /\ books = << >>
    /\ lemmas = << >>
    /\ tokens = {}
    /\ pc = "idle"
    /\ book_id = 0
    /\ lemma_groups = << >>
    /\ idx = 0
    /\ saved_count = 0
    /\ lemma_records = << >>
    /\ token_records = << >>
    /\ token_to_lemma_map = << >>
    /\ tx_lemmas = << >>
    /\ dirty = << >>
    /\ tx_tokens = {}
    /\ sess_ok = TRUE
    /\ faults = 0
    /\ built = << >>
    /\ skipped = << >>
    /\ batch_done = << >>
    /\ raised = << >>
    /\ snap = << >>
    /\ NoWorkers
    /\ NoLookups /\ NoSanitizing /\ NoEnriching
    /\ NoReading

\* upload_book, lines 153-191: the Book row is committed with status
\* "processing" and the worker thread is started.  One worker runs at a time.
UploadBook(d) ==
    /\ pc = "idle"
    /\ Len(books) < MaxBooks
    /\ books' = Append(books,
           [doc |-> d, processing_status |-> "processing",
            total_words |-> WordCount(Docs[d].runs), unique_lemmas |-> 0])
    /\ pc' = "start"
    /\ book_id' = Len(books) + 1
    /\ lemma_groups' = << >>
    /\ idx' = 0
    /\ saved_count' = 0
    /\ lemma_records' = << >>
    /\ token_records' = << >>
    /\ token_to_lemma_map' = << >>
    /\ NewSession
    /\ built' = Append(built, 0)
    /\ skipped' = Append(skipped, {})
    /\ batch_done' = Append(batch_done, [idx |-> 0, lemmas |-> 0, tokens |-> {}])
    /\ raised' = Append(raised, {})
    /\ snap' = Append(snap, << >>)
    /\ UNCHANGED << aux, lemmas, tokens, faults >>

\* The loop goes on to the next lemma group, or leaves the loop.
Continue(i) ==
    /\ idx' = i
    /\ pc' = IF i > Len(lemma_groups) THEN "final_flush" ELSE "loop"

\* Lines 65-67: the word counts of the analysis are committed.
WithWordCounts(book, analysis) ==
    [book EXCEPT !.total_words = analysis.total_words,
                 !.unique_lemmas = analysis.unique_words]

\* process_book_background, lines 44-75, and the save up to its loop (lines
\* 847-1012): the book is read, the vocabulary extracted, the word counts
\* committed and the lemma groups built.
StartProcessing ==
    /\ pc = "start"
    /\ sess_ok
    /\ books' = [books EXCEPT ![book_id] =
                     WithWordCounts(@, ExtractAllVocabulary(CurDoc))]
    /\ lemma_groups' = LemmaGroups(CurDoc)
    /\ Commit
    /\ idx' = 1
    /\ pc' = IF lemma_groups' = << >> THEN "final_flush" ELSE "loop"
    /\ built' = [built EXCEPT ![book_id] = Len(lemma_groups')]
    /\ UNCHANGED << aux, book_id, saved_count, lemma_records, token_records,
                    token_to_lemma_map, faults, skipped, batch_done, raised, snap >>

(***************************************************************************)
(* save_comprehensive_analysis_with_lemmatization: the save loop           *)
(***************************************************************************)

\* token_to_lemma_map.get(original_token) when it is a lemma text; None when
\* the key is missing or maps to the id of an existing lemma, which equals
\* no Lemma.lemma.
MappedLemmaText(map, original_token) ==
    IF original_token \in DOMAIN map /\ map[original_token].id = 0
    THEN map[original_token].text ELSE None

\* Lines 1311-1320 and 1363-1372: the lemma ids of the records that have none
\* are looked up by the mapped lemma text.
ResolveTokens(records, map, view, language) ==
    [k \in 1 .. Len(records) |->
        IF records[k].lemma_id = 0
           /\ MappedLemmaText(map, records[k].original_token) # None
        THEN [records[k] EXCEPT !.lemma_id =
                 QueryLemma(view, MappedLemmaText(map, records[k].original_token),
                            language)]
        ELSE records[k]]

\* The lookup of ResolveTokens sends at least one query.
ResolveQueries(records, map) ==
    \E k \in 1 .. Len(records) :
        /\ records[k].lemma_id = 0
        /\ MappedLemmaText(map, records[k].original_token) # None

\* The token records without the filter on lemma_id.
UnfilteredTokens(records) ==
    {records[k] : k \in 1 .. Len(records)}

\* valid_tokens (lines 1326 and 1374): the records that have a lemma id
ValidTokens(records) ==
    {records[k] : k \in {j \in 1 .. Len(records) : records[j].lemma_id # 0}}

\* The update with the run's aggregate frequency assigned as it is.
OverwrittenLemma(existing, plan, src) ==
    [existing EXCEPT
        !.lemma = IF plan.proper THEN plan.lemma_to_save ELSE @,
        !.pos = IF plan.pos # "" THEN plan.pos ELSE @,
        !.global_frequency = plan.total_frequency,
        !.src = @ \cup {src}]

\* Lines 1233-1244: the existing Lemma object after the update.
UpdatedLemma(existing, plan, src) ==
    [existing EXCEPT
        !.lemma = IF plan.proper THEN plan.lemma_to_save ELSE @,
        !.pos = IF plan.pos # "" THEN plan.pos ELSE @,
        !.global_frequency = Max(@, plan.total_frequency),
        !.src = @ \cup {src}]

\* Lines 1247-1255: the record of a new lemma.
\* A new Lemma row that takes the frequency of the canonical form alone.
CanonicalFormLemmaRecord(plan, language, src) ==
    [lemma |-> plan.lemma_to_save, language |-> language, pos |-> plan.pos,
     global_frequency |-> plan.word_list[1].frequency, src |-> {src}]

NewLemmaRecord(plan, language, src) ==
    [lemma |-> plan.lemma_to_save, language |-> language, pos |-> plan.pos,
     global_frequency |-> plan.total_frequency, src |-> {src}]

\* Lines 1219-1303: the store part of the turn of lemma group idx up to
\* saved_count += 1, and the test of line 1303.
SaveLemma(plan) ==
    /\ LET first == QueryLemma(tx_lemmas, plan.lemma_to_save, CurLanguage)
           existing == IF first = 0 /\ plan.lemma_to_save # plan.lemma
                       THEN QueryLemma(tx_lemmas, plan.lemma, CurLanguage)
                       ELSE first
           forms == {plan.word_list[k].word : k \in 1 .. Len(plan.word_list)}
           mapped == IF existing # 0 THEN [id |-> existing, text |-> None]
                     ELSE [id |-> 0, text |-> plan.lemma]
       IN  /\ IF existing # 0
              THEN /\ dirty' = [i \in DOMAIN dirty \cup {existing} |->
                                   IF i = existing
                                   THEN UpdatedLemma(LemmaObject(existing), plan,
                                                     <<book_id, idx>>)
                                   ELSE dirty[i]]
                   /\ lemma_records' = lemma_records
              ELSE /\ lemma_records' = Append(lemma_records,
                          NewLemmaRecord(plan, CurLanguage, <<book_id, idx>>))
                   /\ dirty' = dirty
           /\ token_to_lemma_map' =
                  [w \in DOMAIN token_to_lemma_map \cup forms |->
                      IF w \in forms THEN mapped ELSE token_to_lemma_map[w]]
           /\ token_records' = token_records \o
                  [k \in 1 .. Len(plan.sampled_positions) |->
                      [book_id |-> book_id, lemma_id |-> existing,
                       position |-> plan.sampled_positions[k],
                       original_token |-> plan.canonical_word]]
    /\ saved_count' = saved_count + 1
    /\ IF saved_count' % BatchSize = 0
       THEN pc' = "batch_flush" /\ idx' = idx
       ELSE Continue(idx + 1)
    /\ UNCHANGED << aux, store, book_id, lemma_groups, tx_lemmas, tx_tokens,
                    sess_ok, faults, ghosts >>

\* One turn of the loop of line 1013.
ProcessLemma ==
    /\ pc = "loop"
    /\ sess_ok
    /\ SaveLemma(GroupPlan(lemma_groups[idx], CurLanguage))

\* Lines 1305-1309 and 1323-1331: the new lemmas are added and flushed; with
\* no new lemma the batch goes straight to its tokens.
BatchFlush ==
    /\ pc = "batch_flush"
    /\ IF lemma_records # << >>
       THEN /\ sess_ok
            /\ tx_lemmas' = Flushed(tx_lemmas, dirty, lemma_records)
            /\ dirty' = << >>
            /\ pc' = "batch_resolve"
            /\ UNCHANGED << token_records, tx_tokens >>
       ELSE /\ tx_tokens' = tx_tokens \cup ValidTokens(token_records)
            /\ token_records' = << >>
            /\ pc' = "batch_commit"
            /\ UNCHANGED << tx_lemmas, dirty >>
    /\ UNCHANGED << aux, store, book_id, lemma_groups, idx, saved_count,
                    lemma_records, token_to_lemma_map, sess_ok, faults, ghosts >>

\* Lines 1310-1331: the token records get their lemma ids, lemma_records is
\* emptied, the valid tokens are added to the session.
BatchResolve ==
    /\ pc = "batch_resolve"
    /\ sess_ok
    /\ tx_tokens' = tx_tokens \cup
           ValidTokens(ResolveTokens(token_records, token_to_lemma_map,
                                     tx_lemmas, CurLanguage))
    /\ lemma_records' = << >>
    /\ token_records' = << >>
    /\ pc' = "batch_commit"
    /\ UNCHANGED << aux, store, book_id, lemma_groups, idx, saved_count,
                    token_to_lemma_map, tx_lemmas, dirty, sess_ok, faults, ghosts >>

\* The batch step with its db.commit() left out.
BatchWithoutCommit ==
    /\ pc = "batch_commit"
    /\ sess_ok
    /\ batch_done' = [batch_done EXCEPT ![book_id] =
                          [idx |-> idx, lemmas |-> Len(tx_lemmas),
                           tokens |-> tokens \cup tx_tokens]]
    /\ pc' = "batch_progress"
    /\ UNCHANGED << aux, store, book_id, locals, session, faults, built, skipped,
                    raised, snap >>

\* Line 1333: db.commit() of the batch.
BatchCommit ==
    /\ pc = "batch_commit"
    /\ sess_ok
    /\ Commit
    /\ batch_done' = [batch_done EXCEPT ![book_id] =
                          [idx |-> idx, lemmas |-> Len(tx_lemmas),
                           tokens |-> tokens \cup tx_tokens]]
    /\ pc' = "batch_progress"
    /\ UNCHANGED << aux, books, book_id, locals, faults, built, skipped, raised, snap >>

\* Lines 1337-1346: the book's unique_lemmas is set to saved_count and
\* committed; the turn ends.
BatchProgress ==
    /\ pc = "batch_progress"
    /\ sess_ok
    /\ books' = [books EXCEPT ![book_id].unique_lemmas = saved_count]
    /\ Commit
    /\ Continue(idx + 1)
    /\ UNCHANGED << aux, book_id, lemma_groups, saved_count, lemma_records,
                    token_records, token_to_lemma_map, faults, ghosts >>

\* Lines 1354-1359: the remaining new lemmas are added and flushed.
FinalFlush ==
    /\ pc = "final_flush"
    /\ IF lemma_records # << >>
       THEN /\ sess_ok
            /\ tx_lemmas' = Flushed(tx_lemmas, dirty, lemma_records)
            /\ dirty' = << >>
       ELSE UNCHANGED << tx_lemmas, dirty >>
    /\ pc' = "final_resolve"
    /\ UNCHANGED << aux, store, book_id, locals, tx_tokens, sess_ok, faults, ghosts >>

\* Lines 1361-1378: the remaining token records get their lemma ids and the
\* valid ones are added to the session.
FinalResolve ==
    /\ pc = "final_resolve"
    /\ ResolveQueries(token_records, token_to_lemma_map) => sess_ok
    /\ tx_tokens' = tx_tokens \cup
           ValidTokens(ResolveTokens(token_records, token_to_lemma_map,
                                     tx_lemmas, CurLanguage))
    /\ pc' = "final_commit"
    /\ UNCHANGED << aux, store, book_id, locals, tx_lemmas, dirty, sess_ok, faults,
                    ghosts >>

\* Line 1380: the last db.commit() of the save.
FinalCommit ==
    /\ pc = "final_commit"
    /\ sess_ok
    /\ Commit
    /\ pc' = "set_completed"
    /\ UNCHANGED << aux, books, book_id, locals, faults, ghosts >>

\* process_book_background, lines 78-80: the status is set to "completed"
\* and committed.
SetCompleted ==
    /\ pc = "set_completed"
    /\ sess_ok
    /\ books' = [books EXCEPT ![book_id].processing_status = "completed"]
    /\ Commit
    /\ snap' = [snap EXCEPT ![book_id] = lemmas']
    /\ pc' = "done"
    /\ UNCHANGED << aux, book_id, locals, faults, built, skipped, batch_done, raised >>

\* process_book_background, lines 83-92: the except branch reads the book,
\* sets the status to "failed" and commits.
MarkFailed ==
    /\ pc = "handler"
    /\ sess_ok
    /\ books' = [books EXCEPT ![book_id].processing_status = "failed"]
    /\ Commit
    /\ pc' = "done"
    /\ UNCHANGED << aux, book_id, locals, faults, ghosts >>

\* process_book_background, lines 95-96: db.close(); the thread ends.
CloseSession ==
    /\ pc = "done"
    /\ pc' = "idle"
    /\ UNCHANGED << aux, store, book_id, locals, session, faults, ghosts >>

(***************************************************************************)
(* Exceptions and crashes                                                  *)
(***************************************************************************)

\* A statement raises and a failed flush rolls the transaction back, with
\* the session usable again at once.
RaiseAndRollBack(place, flush_failed) ==
    /\ faults < MaxFaults
    /\ faults' = faults + 1
    /\ raised' = [raised EXCEPT ![book_id] = @ \cup {<<place, idx>>}]
    /\ IF flush_failed
       THEN /\ tx_lemmas' = lemmas
            /\ dirty' = << >>
            /\ tx_tokens' = {}
            /\ sess_ok' = sess_ok
       ELSE UNCHANGED session

\* A statement of the session raises.  A SELECT that fails leaves the
\* session usable.  A flush that fails, in db.flush() or in db.commit(),
\* rolls the transaction back and leaves the session unusable until
\* rollback(), which the worker never calls: from then on every statement
\* of the session raises.
Raise(place, flush_failed) ==
    /\ sess_ok => faults < MaxFaults
    /\ faults' = IF sess_ok THEN faults + 1 ELSE faults
    /\ raised' = IF sess_ok
                 THEN [raised EXCEPT ![book_id] = @ \cup {<<place, idx>>}]
                 ELSE raised
    /\ IF flush_failed /\ sess_ok
       THEN /\ tx_lemmas' = lemmas
            /\ dirty' = << >>
            /\ tx_tokens' = {}
            /\ sess_ok' = FALSE
       ELSE UNCHANGED session

\* Lines 1348-1352: the except branch of the loop; the turn of lemma group
\* idx ends and the loop goes on.
SkipLemma ==
    /\ skipped' = [skipped EXCEPT ![book_id] = @ \cup {idx}]
    /\ Continue(idx + 1)

\* process_book_background, lines 46-67: the read of the book or the
\* extraction raises, or the commit of the word counts fails.
StartRaises(flush_failed) ==
    /\ pc = "start"
    /\ Raise("start", flush_failed)
    /\ pc' = "handler"
    /\ UNCHANGED << aux, store, book_id, locals, built, skipped, batch_done, snap >>

\* Lines 1016-1231: the turn of a lemma group raises before it has changed
\* anything (its queries of lines 1221-1231, or the code before them).
LemmaRaises ==
    /\ pc = "loop"
    /\ Raise("loop", FALSE)
    /\ SkipLemma
    /\ UNCHANGED << aux, store, book_id, lemma_groups, saved_count, lemma_records,
                    token_records, token_to_lemma_map, built, batch_done, snap >>

\* Line 1309: the flush of the batch fails.
BatchFlushRaises ==
    /\ pc = "batch_flush"
    /\ lemma_records # << >>
    /\ Raise("batch_flush", TRUE)
    /\ SkipLemma
    /\ UNCHANGED << aux, store, book_id, lemma_groups, saved_count, lemma_records,
                    token_records, token_to_lemma_map, built, batch_done, snap >>

\* Lines 1311-1320: a query of the token resolution raises after the flush,
\* with lemma_records not yet emptied.
BatchResolveRaises ==
    /\ pc = "batch_resolve"
    /\ ResolveQueries(token_records, token_to_lemma_map)
    /\ Raise("batch_resolve", FALSE)
    /\ SkipLemma
    /\ UNCHANGED << aux, store, book_id, lemma_groups, saved_count, lemma_records,
                    token_records, token_to_lemma_map, built, batch_done, snap >>

\* Line 1333: the commit of the batch fails, with lemma_records and
\* token_records already emptied.
BatchCommitRaises ==
    /\ pc = "batch_commit"
    /\ Raise("batch_commit", TRUE)
    /\ SkipLemma
    /\ UNCHANGED << aux, store, book_id, lemma_groups, saved_count, lemma_records,
                    token_records, token_to_lemma_map, built, batch_done, snap >>

\* Lines 1338-1346: the progress update raises; its own except branch
\* swallows the exception and the turn ends.
BatchProgressRaises(flush_failed) ==
    /\ pc = "batch_progress"
    /\ Raise("batch_progress", flush_failed)
    /\ Continue(idx + 1)
    /\ UNCHANGED << aux, store, book_id, lemma_groups, saved_count, lemma_records,
                    token_records, token_to_lemma_map, built, skipped, batch_done,
                    snap >>

\* Lines 1355-1380: the final flush, a query of the final token resolution
\* or the final commit raises, outside the loop's try: the exception leaves
\* the save and reaches the except branch of process_book_background.
FinalRaises ==
    /\ \/ pc = "final_flush" /\ lemma_records # << >> /\ Raise("final_flush", TRUE)
       \/ /\ pc = "final_resolve"
          /\ ResolveQueries(token_records, token_to_lemma_map)
          /\ Raise("final_resolve", FALSE)
       \/ pc = "final_commit" /\ Raise("final_commit", TRUE)
    /\ pc' = "handler"
    /\ UNCHANGED << aux, store, book_id, locals, built, skipped, batch_done, snap >>

\* An exception after the commit of "completed" has gone through.
RaisesAfterCompleted ==
    /\ pc = "set_completed"
    /\ sess_ok
    /\ faults < MaxFaults
    /\ books' = [books EXCEPT ![book_id].processing_status = "completed"]
    /\ Commit
    /\ faults' = faults + 1
    /\ raised' = [raised EXCEPT ![book_id] = @ \cup {<<"set_completed", idx>>}]
    /\ pc' = "handler"
    /\ UNCHANGED << aux, book_id, locals, built, skipped, batch_done, snap >>

\* process_book_background, line 80: the commit of "completed" fails.
SetCompletedRaises ==
    /\ pc = "set_completed"
    /\ Raise("set_completed", TRUE)
    /\ pc' = "handler"
    /\ UNCHANGED << aux, store, book_id, locals, built, skipped, batch_done, snap >>

\* process_book_background, lines 88-94: the except branch itself raises,
\* and its bare except passes.
MarkFailedRaises(flush_failed) ==
    /\ pc = "handler"
    /\ Raise("handler", flush_failed)
    /\ pc' = "done"
    /\ UNCHANGED << aux, store, book_id, locals, built, skipped, batch_done, snap >>

\* The worker process dies (the thread is a daemon): whatever its session
\* has not committed is gone.
Crash ==
    /\ pc \notin {"idle", "done"}
    /\ faults < MaxFaults
    /\ faults' = faults + 1
    /\ raised' = [raised EXCEPT ![book_id] = @ \cup {<<"crash", idx>>}]
    /\ pc' = "idle"
    /\ UNCHANGED << aux, store, book_id, locals, session, built, skipped, batch_done,
                    snap >>

\* The steps of the worker thread.
Worker ==
    \/ StartProcessing
    \/ ProcessLemma
    \/ BatchFlush
    \/ BatchResolve
    \/ BatchCommit
    \/ BatchProgress
    \/ FinalFlush
    \/ FinalResolve
    \/ FinalCommit
    \/ SetCompleted
    \/ MarkFailed
    \/ CloseSession
    \/ \E flush_failed \in BOOLEAN : StartRaises(flush_failed)
    \/ LemmaRaises
    \/ BatchFlushRaises
    \/ BatchResolveRaises
    \/ BatchCommitRaises
    \/ \E flush_failed \in BOOLEAN : BatchProgressRaises(flush_failed)
    \/ FinalRaises
    \/ SetCompletedRaises
    \/ \E flush_failed \in BOOLEAN : MarkFailedRaises(flush_failed)
    \/ Crash

Next == (\E d \in DocIds : UploadBook(d)) \/ Worker

Spec == Init /\ [][Next]_vars

\* Uploads of texts without words, among uploads of a text with words.
EdgeNext == (\E d \in EdgeDocIds : UploadBook(d)) \/ Worker

SpecEdge == Init /\ [][EdgeNext]_vars

(***************************************************************************)
(* Properties                                                              *)
(***************************************************************************)

BookIds == 1 .. Len(books)

\* The run of book b met no exception and no crash.
CleanRun(b) == raised[b] = {}

\* Lemma group i of book b is persisted as a committed Lemma row.
Persisted(b, i) == \E r \in 1 .. Len(lemmas) : <<b, i>> \in lemmas[r].src

\* C1: after any sequence of ingestions, several lemma groups of one
\* not-yet-flushed batch included, the Lemma table holds at most one row for
\* each (lemma text, language) pair.
LemmaRowsUnique ==
    \A i, j \in 1 .. Len(lemmas) :
        (lemmas[i].lemma = lemmas[j].lemma /\ lemmas[i].language = lemmas[j].language)
            => i = j

\* C2: ingesting the same document twice in sequence creates no new Lemma row
\* in the second run, and every lemma's global_frequency after the second run
\* equals its value after the first run.
SecondRunIdempotent ==
    \A b \in BookIds :
        (/\ b + 1 \in BookIds
         /\ books[b].doc = books[b + 1].doc
         /\ CleanRun(b) /\ CleanRun(b + 1)
         /\ books[b].processing_status = "completed"
         /\ books[b + 1].processing_status = "completed")
        => /\ Len(snap[b + 1]) = Len(snap[b])
           /\ \A i \in 1 .. Len(snap[b]) :
                  snap[b + 1][i].global_frequency = snap[b][i].global_frequency

\* The status changes the specification allows.
AllowedStatusChanges ==
    { <<"pending", "processing">>, <<"processing", "completed">>,
      <<"processing", "failed">> }

\* C3: every change of a document's processing_status is pending to
\* processing, processing to completed or processing to failed; the status
\* never moves back, and a completed or failed status is not changed again.
StatusChangesAllowed ==
    [][\A b \in BookIds :
          books'[b].processing_status # books[b].processing_status
              => <<books[b].processing_status, books'[b].processing_status>>
                     \in AllowedStatusChanges]_vars

\* One document has completed and another has failed.
StatusWitness ==
    /\ \E b \in BookIds : books[b].processing_status = "completed"
    /\ \E b \in BookIds : books[b].processing_status = "failed"

\* C4: every committed Token row has a lemma_id that refers to a Lemma row
\* of the store, and no Token is added to the session before its Lemma row
\* is flushed and has an id.
TokensReferToLemmas ==
    /\ \A t \in tokens : t.lemma_id \in 1 .. Len(lemmas)
    /\ \A t \in tx_tokens : t.lemma_id \in 1 .. Len(tx_lemmas)

\* A batch has committed a Token of a Lemma row that its own flush created,
\* next to a lemma group of a capitalized form whose records found no id.
TokensWitness ==
    /\ pc = "batch_progress"
    /\ \E t \in tokens :
           /\ t.book_id = book_id
           /\ t.lemma_id \in 1 .. Len(lemmas)
           /\ \A e \in lemmas[t.lemma_id].src : e[1] = book_id
    /\ \E i \in 1 .. idx :
           /\ Persisted(book_id, i)
           /\ \A t \in tokens :
                  t.book_id = book_id
                      => <<book_id, i>> \notin lemmas[t.lemma_id].src

\* C5: for every (document, lemma) pair the number of stored Token rows
\* never exceeds the cap of 20.
TokensPerLemmaCapped ==
    \A b \in BookIds : \A l \in 1 .. Len(lemmas) :
        Cardinality({t \in tokens : t.book_id = b /\ t.lemma_id = l})
            <= MaxTokensPerLemma

UniqueLemmasIsPersistedGroups ==
    \A b \in BookIds :
        books[b].processing_status = "completed"
            => books[b].unique_lemmas
                   = Cardinality({i \in 1 .. built[b] : Persisted(b, i)})

\* The places where an exception is raised outside the loop's try: it
\* reaches the except branch of process_book_background.
PipelinePlaces ==
    {"start", "final_flush", "final_resolve", "final_commit", "set_completed"}

\* The places of a lemma group's turn inside the loop's try.
LemmaPlaces == {"loop", "batch_flush", "batch_resolve", "batch_commit"}

\* C8: if the worker hits a pipeline-level exception (for example the store
\* is unreachable), the document's status ends as failed and does not stay
\* processing.
PipelineExceptionEndsFailed ==
    (/\ pc = "done"
     /\ \E r \in raised[book_id] : r[1] \in PipelinePlaces)
    => books[book_id].processing_status = "failed"

\* C9: if the turn of one lemma group raises in the save loop (the flush or
\* commit the turn triggers included), only that lemma is skipped: the other
\* lemma groups of the document are persisted and the document does not
\* become failed.
LemmaExceptionSkipsOnlyThatLemma ==
    (/\ pc = "done"
     /\ raised[book_id] # {}
     /\ \A r \in raised[book_id] : r[1] \in LemmaPlaces)
    => /\ books[book_id].processing_status # "failed"
       /\ \A i \in (1 .. built[book_id]) \ {r[2] : r \in raised[book_id]} :
              Persisted(book_id, i)

\* C10: if the worker crashes while a batch is in progress, every Lemma and
\* Token row committed by the earlier batches of the document is still in
\* the store, and only the rows of the uncommitted batch are lost.
CommittedBatchesSurvive ==
    \A b \in BookIds :
        /\ Len(lemmas) >= batch_done[b].lemmas
        /\ batch_done[b].tokens \subseteq tokens
        /\ \A i \in (1 .. batch_done[b].idx) \ skipped[b] : Persisted(b, i)

\* The worker has crashed after a committed batch, in the turn of a later
\* lemma group whose rows are lost.
CrashAfterBatchWitness ==
    /\ pc = "idle"
    /\ \E b \in BookIds : \E r \in raised[b] :
           /\ r[1] = "crash"
           /\ batch_done[b].idx > 0
           /\ batch_done[b].tokens # {}
           /\ r[2] > batch_done[b].idx
           /\ ~Persisted(b, r[2])

\* get_book_vocabulary's query: the Lemma rows joined to the distinct
\* lemma_id values of the document's Token rows (all pages together).
BookVocabulary(b) ==
    {l \in 1 .. Len(lemmas) : \E t \in tokens : t.book_id = b /\ t.lemma_id = l}

\* C11: while a document's status is still processing, the lemma of every
\* lemma group of an already committed batch is returned by the vocabulary
\* read query for that document.
CommittedBatchesVisible ==
    \A b \in BookIds :
        books[b].processing_status = "processing"
            => \A i \in (1 .. batch_done[b].idx) \ skipped[b] :
                   \E l \in BookVocabulary(b) : <<b, i>> \in lemmas[l].src

(***************************************************************************)
(* Two uploads at the same time: upload_book starts one thread per upload, *)
(* and each thread opens its own session                                   *)
(***************************************************************************)

\* How many workers run at the same time.
MaxWorkers == 2

\* What one lemma group's turn computes from its document before it reads the
\* store (lemma_to_save, language, total_frequency), for documents of one
\* lemma group: "italiani" x500, "italiani" x2 and "mare" x1.
WorkerPlans ==
    { [lemma_to_save |-> "italiano", language |-> "it", total_frequency |-> 500],
      [lemma_to_save |-> "italiano", language |-> "it", total_frequency |-> 2],
      [lemma_to_save |-> "mare", language |-> "it", total_frequency |-> 1] }

\* The rows of lemma_table that a statement of worker w's session reads: the
\* committed ones and those of its own connection, which under StaticPool is
\* the one connection that all sessions share.
VisibleTo(w) ==
    {i \in 1 .. Len(lemma_table) :
        \/ lemma_table[i].committed
        \/ lemma_table[i].owner = w
        \/ poolclass = "StaticPool"}

\* db.query(Lemma).filter(Lemma.lemma == text, Lemma.language == language)
\* .first() in worker w's session; 0 stands for None.
WorkerQueryLemma(w, text, language) ==
    LET found == {i \in VisibleTo(w) : /\ lemma_table[i].lemma = text
                                       /\ lemma_table[i].language = language}
    IN  IF found = {} THEN 0 ELSE CHOOSE i \in found : \A j \in found : i <= j

\* The engine is created with one of the two pools.
ConcurrentInit ==
    /\ poolclass \in {"StaticPool", "QueuePool"}
    /\ lemma_table = << >>
    /\ workers = << >>
    /\ NoIngestion
    /\ NoLookups /\ NoSanitizing /\ NoEnriching
    /\ NoReading

\* upload_book, lines 186-191: a thread is started for the upload.
StartWorker(plan) ==
    /\ Len(workers) < MaxWorkers
    /\ workers' = Append(workers,
           [pc |-> "save", plan |-> plan, lemma_records |-> << >>,
            dirty |-> << >>])
    /\ UNCHANGED << ingestion, sanitizing, enriching, dictionary, reading, poolclass, lemma_table >>

\* Lines 1219-1256 in worker w: the existing row is looked up; it is updated
\* in the session, or a record of a new lemma is collected.
WorkerSaveLemma(w) ==
    /\ w \in 1 .. Len(workers)
    /\ workers[w].pc = "save"
    /\ LET plan == workers[w].plan
           existing == WorkerQueryLemma(w, plan.lemma_to_save, plan.language)
       IN  workers' = [workers EXCEPT
               ![w].pc = "flush",
               ![w].dirty =
                   IF existing # 0
                   THEN [i \in {existing} |->
                            Max(lemma_table[existing].global_frequency,
                                plan.total_frequency)]
                   ELSE << >>,
               ![w].lemma_records =
                   IF existing # 0 THEN << >>
                   ELSE << [lemma |-> plan.lemma_to_save,
                            language |-> plan.language,
                            global_frequency |-> plan.total_frequency] >>]
    /\ UNCHANGED << ingestion, sanitizing, enriching, dictionary, reading, poolclass, lemma_table >>

\* Lines 1354-1358 in worker w: the collected records are added and flushed;
\* without records there is no flush before the commit.
WorkerFinalFlush(w) ==
    /\ w \in 1 .. Len(workers)
    /\ workers[w].pc = "flush"
    /\ lemma_table' = lemma_table \o
           [k \in 1 .. Len(workers[w].lemma_records) |->
               [lemma |-> workers[w].lemma_records[k].lemma,
                language |-> workers[w].lemma_records[k].language,
                global_frequency |-> workers[w].lemma_records[k].global_frequency,
                owner |-> w, committed |-> FALSE]]
    /\ workers' = [workers EXCEPT ![w].pc = "commit", ![w].lemma_records = << >>]
    /\ UNCHANGED << ingestion, sanitizing, enriching, dictionary, reading, poolclass >>

\* Line 1380 in worker w: db.commit() writes the changed objects and commits
\* the rows of the session's connection.
WorkerFinalCommit(w) ==
    /\ w \in 1 .. Len(workers)
    /\ workers[w].pc = "commit"
    /\ lemma_table' =
           [i \in 1 .. Len(lemma_table) |->
               [lemma_table[i] EXCEPT
                   !.global_frequency =
                       IF i \in DOMAIN workers[w].dirty
                       THEN workers[w].dirty[i] ELSE @,
                   !.committed =
                       \/ @
                       \/ lemma_table[i].owner = w
                       \/ poolclass = "StaticPool"]]
    /\ workers' = [workers EXCEPT ![w].pc = "done", ![w].dirty = << >>]
    /\ UNCHANGED << ingestion, sanitizing, enriching, dictionary, reading, poolclass >>

ConcurrentNext ==
    \/ \E plan \in WorkerPlans : StartWorker(plan)
    \/ \E w \in 1 .. MaxWorkers : WorkerSaveLemma(w)
    \/ \E w \in 1 .. MaxWorkers : WorkerFinalFlush(w)
    \/ \E w \in 1 .. MaxWorkers : WorkerFinalCommit(w)

SpecConcurrent == ConcurrentInit /\ [][ConcurrentNext]_vars

\* The rows of the Lemma table for one lemma text and language.
RowsOf(text, language) ==
    {i \in 1 .. Len(lemma_table) : /\ lemma_table[i].lemma = text
                                   /\ lemma_table[i].language = language}

\* C12: when two documents that share a lemma have been ingested by workers
\* running at the same time, there is one Lemma row for that lemma and
\* language, and its global_frequency is the larger of the two documents'
\* aggregate frequencies, as after two ingestions in sequence.
ConcurrentSameAsSequential ==
    \A v, w \in 1 .. Len(workers) :
        (/\ v # w
         /\ Len(workers) = 2
         /\ workers[v].pc = "done" /\ workers[w].pc = "done"
         /\ workers[v].plan.lemma_to_save = workers[w].plan.lemma_to_save
         /\ workers[v].plan.language = workers[w].plan.language)
        => \E i \in 1 .. Len(lemma_table) :
               /\ RowsOf(workers[v].plan.lemma_to_save, workers[v].plan.language) = {i}
               /\ lemma_table[i].global_frequency
                      = Max(workers[v].plan.total_frequency,
                            workers[w].plan.total_frequency)

\* The Lemma rows that the step changes in the session.
ReusedRows ==
    {i \in DOMAIN dirty' : i \notin DOMAIN dirty \/ dirty'[i] # dirty[i]}

\* C13: when the turn of a lemma group reuses an existing Lemma row, the
\* row's global_frequency becomes the maximum of its previous value and the
\* sum of the frequencies of the group's word forms, and no stored row's
\* global_frequency ever decreases.
FrequencyIsMaximumAndNeverDecreases ==
    [][/\ pc = "loop" =>
              \A i \in ReusedRows :
                  dirty'[i].global_frequency =
                      Max(LemmaObject(i).global_frequency,
                          SumFrequency(lemma_groups[idx].word_list,
                                       Len(lemma_groups[idx].word_list)))
       /\ \A i \in 1 .. Len(lemmas) :
              /\ i <= Len(lemmas')
              /\ lemmas'[i].global_frequency >= lemmas[i].global_frequency]_vars

\* A second document with a smaller aggregate frequency (2) has reused the
\* row that the first document stored with 500, and it was committed.
FrequencyKeptWitness ==
    \E i \in 1 .. Len(lemmas) :
        /\ lemmas[i].global_frequency = 500
        /\ \E e \in lemmas[i].src : e[1] = 2 /\ books[2].doc = 3
        /\ books[2].processing_status = "completed"

\* C14: when the turn of a lemma group updates an existing Lemma row, a part
\* of speech that is already non-empty on the row keeps its value.
NonEmptyFieldsKept ==
    [][pc = "loop" =>
           \A i \in ReusedRows :
               LemmaObject(i).pos # "" => dirty'[i].pos = LemmaObject(i).pos]_vars

(***************************************************************************)
(* DictionaryService.get_word_info and the cleaning of translations        *)
(***************************************************************************)

\* str.lstrip(chars), str.rstrip(chars) and str.strip(chars)
RECURSIVE LStrip(_, _)
LStrip(text, chars) ==
    IF text # "" /\ SubSeq(text, 1, 1) \in chars
    THEN LStrip(SubSeq(text, 2, Len(text)), chars) ELSE text

RECURSIVE RStrip(_, _)
RStrip(text, chars) ==
    IF text # "" /\ LastChar(text) \in chars
    THEN RStrip(DropLast(text, 1), chars) ELSE text

Strip(text, chars) == RStrip(LStrip(text, chars), chars)

\* How many characters at the end of text are digits.
RECURSIVE TrailingDigits(_)
TrailingDigits(text) ==
    IF text # "" /\ LastChar(text) \in {"0", "1", "2", "3", "4", "5", "6", "7", "8", "9"}
    THEN 1 + TrailingDigits(DropLast(text, 1)) ELSE 0

\* text[:text.index(sep)] when sep is in text, and text otherwise.
RECURSIVE Before(_, _)
Before(text, sep) ==
    IF text = "" \/ SubSeq(text, 1, 1) = sep THEN ""
    ELSE SubSeq(text, 1, 1) \o Before(SubSeq(text, 2, Len(text)), sep)

\* len(text.split()) for a text without leading, trailing or repeated blanks
CountWords(text) ==
    IF text = "" THEN 0
    ELSE 1 + Cardinality({i \in 1 .. Len(text) : SubSeq(text, i, i) = " "})

\* DictionaryService._clean_translation_text (the texts hold no runs of
\* whitespace to collapse, and no curly quotes or backticks to strip)
CleanTranslationText(text) ==
    LET \* the wrappers and the punctuation at the end are dropped
        Unwrapped(t) ==
            Strip(RStrip(Strip(Strip(Strip(t, {" "}), {"[", "]"}), {"\"", "'"}),
                         {"?", "!", ".", ",", ";", ":"}),
                  {" "})
        \* a sense marker such as -3 at the end is dropped
        Unmarked(t, d) ==
            IF d > 0 /\ EndsWith(DropLast(t, d), "-") THEN DropLast(t, d + 1) ELSE t
        \* a numeric qualifier in parentheses at the end is dropped
        Unqualified(t, e) ==
            IF EndsWith(t, ")") /\ e > 0 /\ EndsWith(DropLast(t, e + 1), "(")
            THEN RStrip(DropLast(t, e + 2), {" "}) ELSE t
        \* a word in capitals is lower-cased
        Unshouted(t, letters) ==
            IF /\ letters # {}
               /\ \A i \in letters : IsUpperChar(SubSeq(t, i, i))
               /\ \A i \in 1 .. Len(t) : SubSeq(t, i, i) # " "
               /\ Len(t) > 2
            THEN Lower(t) ELSE t
        Letters(t) ==
            {i \in 1 .. Len(t) : LowerChar(SubSeq(t, i, i)) \in LowerLetters}
        Step4(t) == Unshouted(t, Letters(t))
        Step3(t) == Step4(Unqualified(t, TrailingDigits(DropLast(t, 1))))
        Step2(t) == Step3(Unmarked(t, TrailingDigits(t)))
    IN  Step2(Unwrapped(text))

\* sub in text
Contains(text, sub) ==
    \E i \in 1 .. Len(text) - Len(sub) + 1 : SubSeq(text, i, i + Len(sub) - 1) = sub

\* zipf_frequency(word, 'en') of the wordfreq package, for the words the
\* sources answer with: they are common English words, and a word that is
\* no English word has frequency zero.
ZipfFrequency(word) ==
    IF Strip(word, {"\"", "[", "]", ".", ":"}) \in {"mari", "tuttora"} THEN 0 ELSE 5

\* DictionaryService._looks_like_bad_translation
LooksLikeBadTranslation(translation, source) ==
    LET cleaned == Strip(translation, {" "})
        alpha_only == {i \in 1 .. Len(cleaned) :
                          LowerChar(SubSeq(cleaned, i, i)) \in LowerLetters}
        words == CountWords(cleaned)
        freq == ZipfFrequency(Lower(Before(cleaned, " ")))
    IN  \/ translation = ""
        \/ cleaned \in {"-", "--"}
        \/ Cardinality(alpha_only) < 2
        \/ words > 5 /\ Len(source) <= 5
        \/ \E i \in 1 .. Len(cleaned) : TrailingDigits(SubSeq(cleaned, i, i)) = 1
        \/ /\ source # "" /\ SubSeq(source, 1, 1) \in LowerLetters
           /\ IsUpperChar(SubSeq(cleaned, 1, 1))
           /\ words = 1 /\ Len(source) >= 3
        \/ freq < 1 /\ Len(source) <= 4
        \/ freq < 1 /\ words = 1

\* The prefixes of morphological markers.
MarkerPrefixes ==
    {"plural:", "feminine:", "masculine:", "root:", "prefix:", "suffix:"}

\* The loop over the separators of _sanitize_translation: the first part
\* that is not blank, at the first separator that the text holds.
RECURSIVE FirstSegment(_, _, _)
FirstSegment(text, seps, i) ==
    IF i > Len(seps) THEN text
    ELSE IF ~Contains(text, seps[i]) THEN FirstSegment(text, seps, i + 1)
    ELSE LET head == Strip(Before(text, seps[i]), {" "})
             rest == SubSeq(text, Len(Before(text, seps[i])) + 2, Len(text))
         IN  IF head # "" THEN head
             ELSE IF Strip(rest, {" ", seps[i]}) = ""
                  THEN FirstSegment(text, seps, i + 1)
                  ELSE FirstSegment(rest, seps, i)

\* DictionaryService._sanitize_translation (allow_blank changes nothing: a
\* blank result is '' either way)
SanitizeTranslation(translation, source) ==
    LET \* a phrase for a very short source: its first token
        FirstToken(t, words) ==
            IF \/ words > 2 /\ Len(source) <= 4
               \/ words > 1 /\ Len(source) <= 3
            THEN Before(t, " ") ELSE t
        \* a marker, the source echoed back or noise: blank
        Accepted(t) ==
            IF \E prefix \in MarkerPrefixes : StartsWith(Lower(t), prefix) THEN ""
            ELSE IF source # "" /\ t # "" /\ Lower(t) = Lower(source) THEN ""
            ELSE IF LooksLikeBadTranslation(t, source) THEN ""
            ELSE t
        Step3(t) == CleanTranslationText(Accepted(t))
        Step2(t) == Step3(FirstToken(t, CountWords(t)))
        Step1(t) == Step2(FirstSegment(t, << ";", ",", "/" >>, 1))
    IN  Step1(CleanTranslationText(translation))

\* A resolver that takes every stored definition for a machine-made one.
AlwaysRefresh(definition, source, language) == TRUE

\* DictionaryService._should_refresh_cached_definition
ShouldRefreshCachedDefinition(definition, source, language) ==
    LET lower == Lower(Strip(definition, {" "}))
        words == CountWords(lower)
    IN  /\ definition # "" /\ language # "en"
        /\ lower # ""
        /\ \/ Before(lower, " ") \in {"i", "we", "you", "he", "she", "they"}
           \/ Contains(" " \o lower \o " ", " would ")
           \/ words = 1 /\ EndsWith(lower, "s") /\ Len(source) >= 5

\* How many get_word_info calls are made.
MaxLookups == 3

\* The words that are looked up, with their language.
WordInfoWords == { << "mare", "it" >>, << "tuttora", "it" >> }

\* What the structured lexical source answers for a word: its translation,
\* or nothing.
LexicalAnswers == { "", "sea" }

\* What the machine translation answers for a word (translatedText), or
\* nothing.
TranslationAnswers == { "", "sea", "employees", "mare\".\".", "Rome" }

\* What the second machine translation, MyMemory, answers for a word
\* (responseData.translatedText), or nothing.
MyMemoryAnswers == { "", "sea" }

\* The machine translations in the order _lookup_translation asks them.
BothTranslators == << "machine_translation", "second_machine_translation" >>

\* get_word_info, lines 92-97: lookup_word and language, which make the
\* cache key (the target language is always "en").
CacheKey(word, language) ==
    LET word_lower == Lower(Strip(word, {" "}))
        normalized_word == NormalizeWordFormInner(word_lower, language)
    IN  << IF normalized_word # None THEN normalized_word ELSE word_lower, language >>

\* get_word_info, lines 99-202, for the answers lex, mt and mm of the sources:
\* the result, and the sources the call went through in order.
WordInfo(word, language, lex, mt, mm) ==
    LET Result(key, translation, definition, source) ==
            [key |-> key, translation |-> translation, definition |-> definition,
             source |-> source]
        \* lines 185-190: the final cleanup
        Final(raw, translation, definition, asked) ==
            [info |-> [raw EXCEPT
                          !.translation = IF translation # "" THEN translation
                                          ELSE definition,
                          !.definition = definition],
             consulted |-> << "cache", "store", "lexical" >> \o asked]
        \* _lookup_translation, lines 631-636: LibreTranslate's answer for
        \* the candidate is taken when it is not empty and no echo
        LibreAccepts(translation, candidate) ==
            translation # "" /\ Lower(translation) # Lower(candidate)
        \* _query_mymemory, lines 660-665
        MyMemoryAccepts(translation, candidate) ==
            /\ translation # ""
            /\ Lower(translation) # Lower(candidate)
            /\ ~StartsWith(translation, "[")
        FromSource(key, translation, source, asked) ==
            Final(Result(key, translation, translation, source),
                  SanitizeTranslation(translation, key[1]),
                  SanitizeTranslation(translation, key[1]), asked)
        \* lines 176-183 and _lookup_translation: the lookup word, then the
        \* word as given
        Translated(key, word_lower, before_mt, translation, second) ==
            IF LibreAccepts(translation, key[1])
            THEN FromSource(key, translation, "libretranslate",
                            << "machine_translation" >>)
            ELSE IF MyMemoryAccepts(second, key[1])
            THEN FromSource(key, second, "mymemory", BothTranslators)
            ELSE IF word_lower # key[1] /\ LibreAccepts(translation, word_lower)
            THEN FromSource(key, translation, "libretranslate", BothTranslators)
            ELSE IF word_lower # key[1] /\ MyMemoryAccepts(second, word_lower)
            THEN FromSource(key, second, "mymemory", BothTranslators)
            ELSE Final(before_mt,
                       SanitizeTranslation(before_mt.translation, key[1]),
                       SanitizeTranslation(before_mt.definition, key[1]),
                       BothTranslators)
        \* lines 146-174: the lexical source's answer is merged and cleaned
        Lexical(key, word_lower, from_store, cleaned) ==
            IF lex # "" /\ cleaned # ""
            THEN [info |-> Result(key, cleaned, cleaned, "wiktextract"),
                  consulted |-> << "cache", "store", "lexical" >>]
            ELSE Translated(key, word_lower,
                            IF lex # "" THEN Result(key, "", "", from_store.source)
                            ELSE from_store,
                            CleanTranslationText(mt), CleanTranslationText(mm))
        \* lines 120-141: the Lemma row with a definition
        Stored(key, word_lower, definition, sanitized) ==
            IF definition = ""
            THEN Lexical(key, word_lower, Result(key, "", "", "none"),
                         SanitizeTranslation(lex, key[1]))
            ELSE IF ~ShouldRefreshCachedDefinition(
                         IF sanitized # "" THEN sanitized ELSE definition,
                         key[1], language)
            THEN [info |-> Result(key, IF sanitized # "" THEN sanitized ELSE definition,
                                  IF sanitized # "" THEN sanitized ELSE definition,
                                  "database"),
                  consulted |-> << "cache", "store" >>]
            ELSE Lexical(key, word_lower,
                         Result(key, IF sanitized # "" THEN sanitized ELSE definition,
                                IF sanitized # "" THEN sanitized ELSE definition,
                                "database"),
                         SanitizeTranslation(lex, key[1]))
        StoredDefinition(key) ==
            IF key \in DOMAIN definitions THEN definitions[key] ELSE ""
        Looked(key, word_lower) ==
            IF key \in DOMAIN cache
            THEN [info |-> cache[key], consulted |-> << "cache" >>]
            ELSE Stored(key, word_lower, StoredDefinition(key),
                        SanitizeTranslation(StoredDefinition(key), key[1]))
    IN  Looked(CacheKey(word, language), Lower(Strip(word, {" "})))

\* The call returns r.info, which is in the cache afterwards.
Returned(r) ==
    /\ lookups < MaxLookups
    /\ lookups' = lookups + 1
    /\ word_info' = r.info
    /\ consulted' = r.consulted
    /\ cache' = [k \in DOMAIN cache \cup {r.info.key} |->
                    IF k = r.info.key THEN r.info ELSE cache[k]]

\* A call of get_word_info that stores nothing (the reading views).
GetWordInfo(word, language, lex, mt, mm) ==
    /\ Returned(WordInfo(word, language, lex, mt, mm))
    /\ UNCHANGED << ingestion, sanitizing, enriching, concurrent, reading, definitions >>

\* Lines 1146-1169: the definition that a lemma group's turn builds from
\* dict_info, the translation first.
BuiltDefinition(info, lemma) ==
    LET usable(text) ==
            /\ text # ""
            /\ Lower(text) # Lower(lemma)
            /\ \A prefix \in MarkerPrefixes : ~StartsWith(text, prefix)
        translation == Strip(info.translation, {" "})
        defn == Strip(info.definition, {" "})
    IN  IF usable(translation) THEN translation
        ELSE IF usable(defn) THEN defn ELSE ""

\* The definition is written to the Lemma row when it is not empty.
Saved(key, definition) ==
    definitions' = IF definition = "" THEN definitions
                   ELSE [k \in DOMAIN definitions \cup {key} |->
                            IF k = key THEN definition ELSE definitions[k]]

\* Lines 1116-1169 and 1239-1252 of a lemma group's turn: the lemma is looked
\* up and the definition built from the result is stored on its Lemma row.
SaveDefinition(lemma, language, lex, mt, mm) ==
    /\ Returned(WordInfo(lemma, language, lex, mt, mm))
    /\ Saved(<< lemma, language >>, BuiltDefinition(word_info', lemma))
    /\ UNCHANGED << ingestion, sanitizing, enriching, concurrent, reading >>

\* The process is started again: the cache of the new DictionaryService is
\* empty.
Restart ==
    /\ cache # << >>
    /\ cache' = << >>
    /\ UNCHANGED << ingestion, sanitizing, enriching, concurrent, reading, definitions, consulted,
                    word_info, lookups >>

WordInfoInit ==
    NoIngestion /\ NoWorkers /\ NoLookups /\ NoSanitizing /\ NoEnriching /\ NoReading

WordInfoNext ==
    \/ \E w \in WordInfoWords, lex \in LexicalAnswers,
          mt \in TranslationAnswers, mm \in MyMemoryAnswers :
           GetWordInfo(w[1], w[2], lex, mt, mm)
    \/ \E w \in WordInfoWords, lex \in LexicalAnswers,
          mt \in TranslationAnswers, mm \in MyMemoryAnswers :
           SaveDefinition(w[1], w[2], lex, mt, mm)
    \/ Restart

SpecWordInfo == WordInfoInit /\ [][WordInfoNext]_vars

\* The order in which the sources can be gone through.
ResolutionOrder ==
    << "cache", "store", "lexical", "machine_translation", "second_machine_translation" >>

\* The store holds a Lemma row of the key with a definition.
StoreAnswers(key) == key \in DOMAIN definitions /\ definitions[key] # ""

\* The stored definition of the key reads like a machine translation's
\* artefact: it starts with a personal pronoun, holds the word would, or is
\* one word ending in s for a lemma of five letters or more of a language
\* other than English.
LooksMachineMade(key) ==
    LET kept == IF SanitizeTranslation(definitions[key], key[1]) # ""
                THEN SanitizeTranslation(definitions[key], key[1])
                ELSE definitions[key]
        lower == Lower(Strip(kept, {" "}))
    IN  /\ key[2] # "en"
        /\ \/ Before(lower, " ") \in {"i", "we", "you", "he", "she", "they"}
           \/ Contains(" " \o lower \o " ", " would ")
           \/ CountWords(lower) = 1 /\ EndsWith(lower, "s") /\ Len(key[1]) >= 5

NoEchoNoMarker ==
    word_info.translation # ""
        => /\ Lower(word_info.translation) # Lower(word_info.key[1])
           /\ \A prefix \in MarkerPrefixes :
                  ~StartsWith(Lower(word_info.translation), prefix)

(***************************************************************************)
(* One vocabulary read request: get_book_vocabulary and                    *)
(* _build_vocabulary_items of routers/vocab.py.                            *)
(***************************************************************************)

\* MAX_VOCAB_ENRICH_PER_REQUEST, scaled down from its default of 25.
MAX_SYNC_ENRICHMENTS == 2

\* MAX_VOCAB_ENRICH_BACKGROUND, scaled down from its default of 200.
MAX_BACKGROUND_ENRICHMENTS == 2

\* The limit of a page, scaled down from its maximum of 1000.
PageLimit == 5

\* vocab.py, MORPHOLOGY_EXCLUDE_KEYS (the ones the rows use)
MORPHOLOGY_EXCLUDE_KEYS ==
    {"forms", "form_count", "root", "prefixes", "suffixes", "derivations", "inflections"}

\* _has_substantive_grammar
HasSubstantiveGrammar(morphology) ==
    \E key \in morphology : key \notin MORPHOLOGY_EXCLUDE_KEYS

\* _lemma_needs_enrichment
LemmaNeedsEnrichment(lemma) ==
    \/ Strip(lemma.definition, {" "}) = ""
    \/ Lower(Strip(lemma.definition, {" "})) = Lower(lemma.lemma)
    \/ ~HasSubstantiveGrammar(lemma.morphology)
    \/ Strip(lemma.pos, {" "}) = ""

\* The Lemma rows a page is made of: a complete one, one whose definition
\* repeats the lemma, and one without a part of speech and with no grammar
\* beyond its forms.
PageRows ==
    { [lemma |-> "mare", definition |-> "sea", morphology |-> {"gender"},
       pos |-> "NOUN"],
      [lemma |-> "casa", definition |-> "Casa", morphology |-> {"gender"},
       pos |-> "NOUN"],
      [lemma |-> "tuttora", definition |-> "still", morphology |-> {"forms"},
       pos |-> ""] }

\* get_book_vocabulary, lines 518-584: the query returns the rows of the
\* page, up to its limit.
ReadInit ==
    /\ page \in UNION {[1 .. n -> PageRows] : n \in 1 .. PageLimit}
    /\ position = 1 /\ sync_enriched = 0 /\ background_queue = << >>
    /\ enriched = {} /\ scheduled = << >> /\ responded = FALSE
    /\ NoIngestion /\ NoWorkers /\ NoLookups /\ NoSanitizing /\ NoEnriching

\* _build_vocabulary_items, lines 431-511: one turn of the loop.  The lemma
\* id of a row is its position in the page.
VisitLemma ==
    /\ ~responded
    /\ position <= Len(page)
    /\ IF LemmaNeedsEnrichment(page[position])
       THEN IF sync_enriched < MAX_SYNC_ENRICHMENTS
            THEN /\ enriched' = enriched \cup {position}
                 /\ sync_enriched' = sync_enriched + 1
                 /\ UNCHANGED background_queue
            ELSE IF Len(background_queue) < MAX_BACKGROUND_ENRICHMENTS
            THEN /\ background_queue' = Append(background_queue, position)
                 /\ UNCHANGED << enriched, sync_enriched >>
            ELSE UNCHANGED << enriched, sync_enriched, background_queue >>
       ELSE UNCHANGED << enriched, sync_enriched, background_queue >>
    /\ position' = position + 1
    /\ UNCHANGED << ingestion, sanitizing, enriching, concurrent, dictionary, page,
                    scheduled, responded >>

\* get_book_vocabulary, lines 596-615: the queue goes to the background task
\* and the response is returned.
Respond ==
    /\ ~responded
    /\ position > Len(page)
    /\ scheduled' = background_queue
    /\ responded' = TRUE
    /\ UNCHANGED << ingestion, sanitizing, enriching, concurrent, dictionary, page, position,
                    sync_enriched, background_queue, enriched >>

ReadNext == VisitLemma \/ Respond

SpecRead == ReadInit /\ [][ReadNext]_vars

\* C17: in one vocabulary read request at most MAX_SYNC_ENRICHMENTS lemmas
\* are looked up inline, and every other lemma of the page that needs
\* enrichment is handed to the background task.
RemainderGoesToBackground ==
    /\ Cardinality(enriched) <= MAX_SYNC_ENRICHMENTS
    /\ responded
           => \A i \in 1 .. Len(page) :
                  LemmaNeedsEnrichment(page[i]) /\ i \notin enriched
                      => \E j \in 1 .. Len(scheduled) : scheduled[j] = i

\* C18: normalize_word_form is idempotent: the lemma of a group, which is
\* normalize_word_form of the group's words, is normalized to itself.
NormalizeIsIdempotent ==
    pc = "loop"
        => \A k \in 1 .. Len(lemma_groups) :
               NormalizeWordForm(lemma_groups[k].lemma, CurLanguage)
                   = lemma_groups[k].lemma

\* The grammatical category names of line 985.
CategoryNames ==
    {"article", "preposition", "conjunction", "pronoun", "adverb", "adjective",
     "noun", "verb"}

\* C19: no stored Lemma row has a grammatical category name for its lemma.
NoCategoryNameStored ==
    \A i \in 1 .. Len(lemmas) : Lower(lemmas[i].lemma) \notin CategoryNames

\* A run of the document is a surface form that is grouped: a word of two
\* letters or more that is no stop word, with a lemma of two letters or more.
Grouped(run, language) ==
    /\ Counted(run[1])
    /\ Lower(run[1]) \notin StopWords(language)
    /\ Len(NormalizeWordForm(Lower(run[1]), language)) >= 2

\* How often the document has one of the surface forms.
RECURSIVE OccurrencesOf(_, _, _)
OccurrencesOf(runs, k, forms) ==
    IF k = 0 THEN 0
    ELSE OccurrencesOf(runs, k - 1, forms)
         + (IF Counted(runs[k][1]) /\ Lower(runs[k][1]) \in forms
            THEN runs[k][2] ELSE 0)

\* The surface forms of a group.
FormsOf(g) == {g.word_list[j].word : j \in 1 .. Len(g.word_list)}

\* The groups that hold the surface form.
GroupsOf(groups, word) ==
    {k \in 1 .. Len(groups) :
        \E j \in 1 .. Len(groups[k].word_list) : groups[k].word_list[j].word = word}

\* Every surface form of the document is in exactly one of the groups, the
\* group of its normalized form, and no two groups have the same lemma.
OneGroupPerLemma(groups, doc) ==
    /\ \A k1, k2 \in 1 .. Len(groups) :
           groups[k1].lemma = groups[k2].lemma => k1 = k2
    /\ \A r \in 1 .. Len(doc.runs) :
           Grouped(doc.runs[r], doc.language)
               => \E k \in 1 .. Len(groups) :
                      /\ GroupsOf(groups, Lower(doc.runs[r][1])) = {k}
                      /\ groups[k].lemma =
                             NormalizeWordForm(Lower(doc.runs[r][1]), doc.language)

\* C20: when the lemma groups of a document are made, every surface form is
\* in exactly one group, the group of its normalized form, and no two groups
\* have the same lemma; the groups stay as they are during their turns; and
\* the Lemma row that a group's turn creates has for its global_frequency
\* the number of occurrences in the document of all the surface forms of
\* the group.
OneGroupPerLemmaWithSummedFrequency ==
    [][/\ (pc = "start" /\ lemma_groups' # lemma_groups)
              => OneGroupPerLemma(lemma_groups', CurDoc)
       /\ pc = "loop" => lemma_groups' = lemma_groups
       /\ (pc = "loop" /\ Len(lemma_records') > Len(lemma_records))
              => lemma_records'[Len(lemma_records')].global_frequency =
                     OccurrencesOf(CurDoc.runs, Len(CurDoc.runs),
                                   FormsOf(lemma_groups[idx]))
      ]_vars

\* The group of ragazzo, with the surface forms ragazzi (twice) and ragazzo
\* (once), has created its Lemma row with the frequency 3.
SummedFrequencyWitness ==
    /\ \E k \in 1 .. Len(lemma_groups) :
           /\ lemma_groups[k].lemma = "ragazzo"
           /\ Len(lemma_groups[k].word_list) = 2
    /\ \E n \in 1 .. Len(lemma_records) :
           /\ lemma_records[n].lemma = "ragazzo"
           /\ lemma_records[n].global_frequency = 3

\* The worker of book b has ended.
WorkerEnded(b) == b # book_id \/ pc \in {"done", "idle"}

FourTiers(word, lemma, language) ==
    IF word = lemma THEN 0
    ELSE IF \/ language = "it" /\ EndsWithAny(word, {"are", "ere", "ire"})
            \/ language = "es" /\ EndsWithAny(word, {"ar", "er", "ir"})
            \/ language = "fr" /\ EndsWithAny(word, {"er", "ir", "re"})
    THEN 1
    ELSE IF language = "it" /\ EndsWithAny(word, {"arsi", "ersi", "irsi"})
    THEN 2
    ELSE 3

\* The tiers of the canonical form as stated: the lemma itself, a form that
\* looks like an infinitive, any other form.
ThreeTiers(word, lemma, language) ==
    IF FourTiers(word, lemma, language) = 2 THEN 1
    ELSE FourTiers(word, lemma, language)

\* The canonical form that the turn of the group takes.
CanonicalOf(g) == GroupPlan(g, CurLanguage).word_list[1]

\* C22, as the code has it: the canonical surface form of a lemma group is
\* chosen by tier: the lemma itself, then a form ending like an infinitive
\* of the language, then (Italian) a form ending like a reflexive
\* infinitive, then any other form; inside a tier a form with a higher
\* frequency wins.
CanonicalByFourTiers ==
    pc = "loop"
        => \A k \in 1 .. Len(lemma_groups) :
               \A j \in 1 .. Len(lemma_groups[k].word_list) :
                   LET c == CanonicalOf(lemma_groups[k])
                       t == lemma_groups[k].word_list[j]
                       lemma == lemma_groups[k].lemma
                   IN  \/ FourTiers(c.word, lemma, CurLanguage)
                              < FourTiers(t.word, lemma, CurLanguage)
                       \/ /\ FourTiers(c.word, lemma, CurLanguage)
                                  = FourTiers(t.word, lemma, CurLanguage)
                          /\ c.frequency >= t.frequency

\* C22, as stated: three tiers, and inside a tier a form with a higher
\* frequency wins.
CanonicalByThreeTiers ==
    pc = "loop"
        => \A k \in 1 .. Len(lemma_groups) :
               \A j \in 1 .. Len(lemma_groups[k].word_list) :
                   LET c == CanonicalOf(lemma_groups[k])
                       t == lemma_groups[k].word_list[j]
                       lemma == lemma_groups[k].lemma
                   IN  \/ ThreeTiers(c.word, lemma, CurLanguage)
                              < ThreeTiers(t.word, lemma, CurLanguage)
                       \/ /\ ThreeTiers(c.word, lemma, CurLanguage)
                                  = ThreeTiers(t.word, lemma, CurLanguage)
                          /\ c.frequency >= t.frequency

\* The group of guardare has the forms guardano (3), guardarsi (2) and
\* guàrdare (1), and its turn has made the Token records of guàrdare.
CanonicalInfinitiveWitness ==
    /\ \E k \in 1 .. Len(lemma_groups) :
           /\ lemma_groups[k].lemma = "guardare"
           /\ Len(lemma_groups[k].word_list) = 3
    /\ \E n \in 1 .. Len(token_records) :
           token_records[n].original_token = "guàrdare"

\* C23: the cache holds an entry for a key only if a resolution of the key
\* has produced a translation or a definition.
CacheHoldsOnlySuccesses ==
    \A key \in DOMAIN cache :
        cache[key].translation # "" \/ cache[key].definition # ""


\* C24: when the sanitizer rejects the candidate that one source produced,
\* the resolver goes on to the next source: a call whose result was emptied
\* by the rejection of the first machine translation's candidate has asked
\* the second machine translation too.
RejectionFallsThrough ==
    (word_info.source = "libretranslate" /\ word_info.translation = "")
        => consulted = SubSeq(ResolutionOrder, 1, 5)


(***************************************************************************)
(* One call of DictionaryService._sanitize_translation.                    *)
(***************************************************************************)

\* The candidates: nothing, the source words in either case and wrapped, the
\* morphological markers alone and with a value, and translations.
Candidates ==
    { "", "mare", "Mare", "\"mare\"", "re", "plural:", "plural: mari", "root: mar",
      "feminine: x", "masculine:", "prefix:.", "suffix: -are", "sea", "sea; ocean" }

\* The source words of the calls.
SourceWords == { "mare", "re", "tuttora" }

\* Lines 614-616: a blank result is returned as the empty string whether
\* allow_blank is set or not.
SanitizeTranslationCall(t, s, blank) ==
    LET Returns(cleaned) == IF cleaned = "" /\ ~blank THEN "" ELSE cleaned
    IN  Returns(SanitizeTranslation(t, s))

SanitizeInit ==
    /\ translation_arg \in Candidates
    /\ source_arg \in SourceWords
    /\ allow_blank \in BOOLEAN
    /\ call_result = "" /\ returned = FALSE
    /\ NoIngestion /\ NoWorkers /\ NoLookups /\ NoReading /\ NoEnriching

Sanitize ==
    /\ ~returned
    /\ call_result' = SanitizeTranslationCall(translation_arg, source_arg, allow_blank)
    /\ returned' = TRUE
    /\ UNCHANGED << ingestion, concurrent, dictionary, reading, enriching,
                    translation_arg, source_arg, allow_blank >>

SpecSanitize == SanitizeInit /\ [][Sanitize]_vars

\* C25: _sanitize_translation returns the empty string for a candidate that
\* is empty, that is the source word in any case, or that starts with a
\* morphological marker, whatever allow_blank is.
SanitizerRejects ==
    (/\ returned
     /\ \/ translation_arg = ""
        \/ Lower(translation_arg) = Lower(source_arg)
        \/ \E prefix \in MarkerPrefixes : StartsWith(Lower(translation_arg), prefix))
        => call_result = ""


(***************************************************************************)
(* The Lemma rows under ingestion and under the enrichment of the read     *)
(* paths.  A grammar (Lemma.morphology, dict_info['grammar']) is a         *)
(* function from its keys to their values.                                 *)
(***************************************************************************)

\* How many Lemma rows the table holds at most.
MaxRows == 2

\* The lemma groups whose turn writes a row, each with what its analysis
\* yields besides the dictionary's answer (spaCy's features, the grammar of
\* the word analysis and the forms of the group): a verb, an adjective of
\* two forms, and the adjective capitalised as a proper noun.
RowGroups ==
    { [lemma_to_save |-> "parere", spacy_morph |-> << >>,
       grammar |-> [key \in {"conjugation", "inflections"} |->
                       IF key = "conjugation" THEN "2nd (-ere)" ELSE "pare"],
       forms |-> << "parere" >>],
      [lemma_to_save |-> "italiano", spacy_morph |-> << >>, grammar |-> << >>,
       forms |-> << "italiani", "italiano" >>],
      [lemma_to_save |-> "Italiano",
       spacy_morph |-> [key \in {"Gender", "root"} |->
                           IF key = "Gender" THEN "Masc" ELSE "ital"],
       grammar |-> << >>, forms |-> << "Italiano" >>] }

\* What the sources of get_word_info yield for a word after the cleanup:
\* nothing but the part of speech the fallback infers, a machine translation
\* with the grammar the fallback infers, or an entry of the lexical source.
SourceAnswers ==
    { [translation |-> "", grammar |-> << >>, part_of_speech |-> "NOUN",
       lexical |-> FALSE],
      [translation |-> "seems", grammar |-> [key \in {"conjugation"} |-> "2nd (-ere)"],
       part_of_speech |-> "VERB", lexical |-> FALSE],
      [translation |-> "to seem",
       grammar |-> [key \in {"conjugation", "root"} |->
                       IF key = "conjugation" THEN "1st (-are)" ELSE "par"],
       part_of_speech |-> "VERB", lexical |-> TRUE] }

\* Python's truth of a grammar value: a list, a count or a string.
Populated(key, value) ==
    CASE key = "forms" -> value # << >>
      [] key = "form_count" -> value # 0
      [] OTHER -> value # ""

\* _merge_kaikki_result, lines 1066-1081: the entry's grammar is merged into
\* the result's, the lists of forms joined and cut to ten.
MergeKaikkiGrammar(existing_grammar, kaikki_grammar) ==
    LET NewForms(forms, value) ==
            SubSeq(forms \o SelectSeq(value, LAMBDA form :
                                \A n \in 1 .. Len(forms) : forms[n] # form),
                   1, 10)
    IN  [key \in DOMAIN existing_grammar \cup DOMAIN kaikki_grammar |->
            IF key \notin DOMAIN kaikki_grammar THEN existing_grammar[key]
            ELSE IF key = "forms" /\ key \in DOMAIN existing_grammar
            THEN NewForms(existing_grammar[key], kaikki_grammar[key])
            ELSE kaikki_grammar[key]]

\* Of a result of get_word_info, the grammar, the stored grammar it started
\* from and the caller.
Grammars(info) ==
    [grammar |-> info.grammar, stored |-> info.stored, caller |-> info.caller]

\* get_word_info was not called.
NoCall == [caller |-> "none"]

\* get_word_info, lines 92-202, for a key the cache does not hold: the
\* result with its grammar.  stored is the grammar the Lemma row of the store
\* gave to the result, caller is who called.
ResolveInfo(rows, word, language, answer, caller) ==
    LET Info(lookup_word, translation, grammar, pos, stored) ==
            [normalized_word |-> lookup_word, translation |-> translation,
             definition |-> translation, grammar |-> grammar,
             part_of_speech |-> pos, stored |-> stored, caller |-> caller]
        \* lines 153-202: the lexical source's entry is merged, the fallback
        \* sets the grammar it infers
        Sourced(lookup_word, translation, pos, stored) ==
            IF answer.lexical
            THEN Info(lookup_word, answer.translation,
                      MergeKaikkiGrammar(stored, answer.grammar),
                      answer.part_of_speech, stored)
            ELSE Info(lookup_word,
                      IF answer.translation # "" THEN answer.translation
                      ELSE translation,
                      answer.grammar,
                      IF pos # "" THEN pos ELSE answer.part_of_speech, stored)
        \* lines 120-148: the Lemma row with a definition
        FromStore(lookup_word, row, kept) ==
            IF ~ShouldRefreshCachedDefinition(kept, lookup_word, language)
            THEN Info(lookup_word, kept, row.morphology, row.pos, row.morphology)
            ELSE Sourced(lookup_word, kept, row.pos, row.morphology)
        Kept(definition, sanitized) ==
            IF sanitized # "" THEN sanitized ELSE definition
        First(lookup_word, row) ==
            IF row.definition # ""
            THEN FromStore(lookup_word, row,
                           Kept(row.definition,
                                SanitizeTranslation(row.definition, lookup_word)))
            ELSE Sourced(lookup_word, "", "", << >>)
        Found(lookup_word, hits) ==
            IF hits # {}
            THEN First(lookup_word, rows[CHOOSE i \in hits : \A j \in hits : i <= j])
            ELSE Sourced(lookup_word, "", "", << >>)
        Hits(lookup_word) ==
            Found(lookup_word,
                  {i \in 1 .. Len(rows) :
                      rows[i].lemma = lookup_word /\ rows[i].language = language})
    IN  Hits(CacheKey(word, language)[1])

\* Lines 1171-1199: the morphology of a lemma group's row, without the fields
\* of the morphological breakdown.
BuildMorphology(spacy_morph, dict_grammar, canonical_grammar, word_list) ==
    LET exclude_fields == {"root", "prefixes", "suffixes", "derivations", "inflections"}
        from_spacy == DOMAIN spacy_morph \ exclude_fields
        from_dict == (DOMAIN dict_grammar \ exclude_fields) \ from_spacy
        from_canonical ==
            ((DOMAIN canonical_grammar
                 \cap {"type", "gender", "number", "conjugation", "form", "tense",
                       "definite"}) \ exclude_fields) \ (from_spacy \cup from_dict)
        grouped == IF Len(word_list) > 1 THEN {"forms", "form_count"} ELSE {}
    IN  [key \in from_spacy \cup from_dict \cup from_canonical \cup grouped |->
            IF key \in grouped
            THEN IF key = "forms" THEN word_list ELSE Len(word_list)
            ELSE IF key \in from_spacy THEN spacy_morph[key]
            ELSE IF key \in from_dict THEN dict_grammar[key]
            ELSE canonical_grammar[key]]

\* Lines 1116-1252 of a lemma group's turn, for a batch of one group: the
\* lemma is looked up and its row is updated or added.  spaCy gives the
\* groups no part of speech, so that the dictionary's is taken.
SaveLemmaRow(group, answer) ==
    LET lemma_to_save == group.lemma_to_save
        lemma == Lower(group.lemma_to_save)
        Written(row, definition, morphology, pos) ==
            [row EXCEPT !.lemma = IF lemma_to_save # lemma THEN lemma_to_save ELSE @,
                        !.pos = IF pos # "" THEN pos ELSE @,
                        !.definition = IF definition # "" THEN definition ELSE @,
                        !.morphology = IF DOMAIN morphology # {} THEN morphology ELSE @]
        Added(definition, morphology, pos) ==
            [lemma |-> lemma_to_save, language |-> "it", pos |-> pos,
             definition |-> definition, morphology |-> morphology]
        Save(exact, lower, definition, morphology, pos) ==
            IF exact # {}
            THEN [lemma_rows EXCEPT ![CHOOSE i \in exact : \A j \in exact : i <= j] =
                                        Written(@, definition, morphology, pos)]
            ELSE IF lower # {}
            THEN [lemma_rows EXCEPT ![CHOOSE i \in lower : \A j \in lower : i <= j] =
                                        Written(@, definition, morphology, pos)]
            ELSE Append(lemma_rows, Added(definition, morphology, pos))
        Matching(text) ==
            {i \in 1 .. Len(lemma_rows) :
                lemma_rows[i].lemma = text /\ lemma_rows[i].language = "it"}
        Looked(info) ==
            /\ dict_info' = Grammars(info)
            /\ lemma_rows' =
                   Save(Matching(lemma_to_save), Matching(lemma),
                        BuiltDefinition(info, lemma),
                        BuildMorphology(group.spacy_morph, info.grammar,
                                        group.grammar, group.forms),
                        IF info.part_of_speech # "" THEN info.part_of_speech
                        ELSE "NOUN")
    IN  /\ Matching(lemma_to_save) \cup Matching(lemma) # {} \/ Len(lemma_rows) < MaxRows
        /\ Looked(ResolveInfo(lemma_rows, lemma, "it", answer, "ingestion"))
        /\ UNCHANGED << ingestion, concurrent, dictionary, reading, sanitizing >>

\* _has_valid_definition
HasValidDefinition(definition, lemma_text) ==
    LET cleaned == Strip(definition, {" "})
        alpha_only == {i \in 1 .. Len(cleaned) :
                          LowerChar(SubSeq(cleaned, i, i)) \in LowerLetters}
        words == CountWords(cleaned)
    IN  /\ cleaned # ""
        /\ Lower(cleaned) # Lower(lemma_text)
        /\ \A prefix \in MarkerPrefixes : ~StartsWith(Lower(cleaned), prefix)
        /\ Cardinality(alpha_only) >= 2
        /\ ~(words > 4 /\ Len(lemma_text) <= 4)
        /\ ~(/\ lemma_text # "" /\ SubSeq(lemma_text, 1, 1) \in LowerLetters
             /\ IsUpperChar(SubSeq(cleaned, 1, 1))
             /\ words = 1 /\ Len(lemma_text) >= 3)
        /\ ~(/\ ZipfFrequency(Lower(Before(cleaned, " "))) < 1
             /\ Len(lemma_text) <= 4 /\ words = 1)

\* _enrich_lemma_if_needed, lines 229-234: the keys of the grammar that the
\* morphology lacks or holds empty are set, the keys of MORPHOLOGY_EXCLUDE_KEYS
\* left out.
AllKeysFilled(morphology, grammar) ==
    [key \in DOMAIN morphology \cup DOMAIN grammar |->
        IF key \in DOMAIN morphology /\ Populated(key, morphology[key])
        THEN morphology[key] ELSE grammar[key]]

FillGaps(morphology, grammar) ==
    LET filled == {key \in DOMAIN grammar \ MORPHOLOGY_EXCLUDE_KEYS :
                      key \notin DOMAIN morphology \/ ~Populated(key, morphology[key])}
    IN  [key \in DOMAIN morphology \cup filled |->
            IF key \in filled THEN grammar[key] ELSE morphology[key]]

\* _enrich_lemma_if_needed for a Lemma row: the row as the session holds it
\* afterwards, the values returned, and the info of the lookup, if there was
\* one.
EnrichLemmaIfNeeded(lemma, rows, answer) ==
    LET Outcome(row, definition, morphology, pos, updated, info) ==
            [row |-> row, definition |-> definition, morphology |-> morphology,
             pos |-> pos, updated |-> updated, info |-> info]
        \* lines 229-242
        Graded(row, definition, info, needs_morphology, needs_pos, updated) ==
            Outcome([row EXCEPT
                        !.morphology = IF needs_morphology /\ DOMAIN info.grammar # {}
                                       THEN FillGaps(@, info.grammar) ELSE @,
                        !.pos = IF needs_pos /\ info.part_of_speech # ""
                                THEN info.part_of_speech ELSE @],
                    definition,
                    IF needs_morphology /\ DOMAIN info.grammar # {}
                    THEN FillGaps(row.morphology, info.grammar) ELSE row.morphology,
                    IF needs_pos /\ info.part_of_speech # ""
                    THEN info.part_of_speech ELSE Strip(row.pos, {" "}),
                    \/ updated
                    \/ needs_morphology /\ DOMAIN info.grammar # {}
                    \/ needs_pos /\ info.part_of_speech # "",
                    info)
        \* lines 218-227
        Defined(row, definition, info, needs_definition, needs_morphology,
                needs_pos, updated, translation) ==
            IF ~needs_definition
            THEN Graded(row, definition, info, needs_morphology, needs_pos, updated)
            ELSE IF /\ translation # ""
                    /\ Lower(translation) # Lower(row.lemma)
                    /\ HasValidDefinition(translation, row.lemma)
            THEN Graded([row EXCEPT !.definition = translation], translation, info,
                        needs_morphology, needs_pos, TRUE)
            ELSE Graded([row EXCEPT !.definition = ""], "", info,
                        needs_morphology, needs_pos, updated)
        \* lines 210-216
        Renormalized(row, definition, info, needs_definition, needs_morphology,
                     needs_pos, updated) ==
            IF info.normalized_word # "" /\ info.normalized_word # row.lemma
            THEN Defined([row EXCEPT !.lemma = info.normalized_word,
                                     !.definition = ""],
                         "", info, TRUE, needs_morphology, needs_pos, TRUE,
                         Strip(info.translation, {" "}))
            ELSE Defined(row, definition, info, needs_definition, needs_morphology,
                         needs_pos, updated, Strip(info.translation, {" "}))
        \* lines 190-208
        Needed(row, definition, needs_definition, needs_morphology, needs_pos,
               updated) ==
            IF ~(needs_definition \/ needs_morphology \/ needs_pos)
            THEN Outcome(row, definition, row.morphology, Strip(row.pos, {" "}),
                         FALSE, NoCall)
            ELSE Renormalized(row, definition,
                              ResolveInfo(rows, row.lemma, row.language, answer,
                                          "read"),
                              needs_definition, needs_morphology, needs_pos, updated)
        \* lines 176-188
        Normalized(row, definition, updated) ==
            Needed(row, definition,
                   definition = "" \/ Lower(definition) = Lower(row.lemma),
                   ~HasSubstantiveGrammar(DOMAIN row.morphology),
                   Strip(row.pos, {" "}) = "", updated)
        Started(normalized) ==
            IF normalized # "" /\ normalized # lemma.lemma
            THEN Normalized([lemma EXCEPT !.lemma = normalized, !.definition = ""],
                            "", TRUE)
            ELSE Normalized(lemma, Strip(lemma.definition, {" "}), FALSE)
    IN  Started(NormalizeWordForm(lemma.lemma, lemma.language))

\* One row's enrichment on a read path and the commit of the request:
\* get_book_vocabulary (lines 436-440 and 602-607) and
\* _background_enrich_lemmas for a row that needs it, or
\* get_swipe_session_vocabulary (lines 698-719) for a row without a valid
\* definition.  The request commits when this row or another row of the
\* request was updated; without a commit the session's changes are lost.
EnrichLemma(i, answer, swipe, others_updated) ==
    LET SwipeRow(o) ==
            [o.row EXCEPT
                !.definition = IF o.definition # "" THEN o.definition ELSE @,
                !.morphology = IF DOMAIN o.morphology # {}
                               THEN [key \in DOMAIN @ \cup DOMAIN o.morphology |->
                                        IF key \in DOMAIN o.morphology
                                        THEN o.morphology[key] ELSE @[key]]
                               ELSE @,
                !.pos = IF o.pos # "" THEN o.pos ELSE @]
        Committed(o, rows) ==
            /\ dict_info' = IF o.info = NoCall THEN dict_info ELSE Grammars(o.info)
            /\ lemma_rows' =
                   IF o.updated \/ others_updated
                   THEN [rows EXCEPT ![i] = IF swipe THEN SwipeRow(o) ELSE o.row]
                   ELSE rows
    IN  /\ i \in 1 .. Len(lemma_rows)
        /\ IF swipe
           THEN ~HasValidDefinition(lemma_rows[i].definition, lemma_rows[i].lemma)
           ELSE LemmaNeedsEnrichment(
                    [lemma_rows[i] EXCEPT !.morphology = DOMAIN @])
        /\ Committed(EnrichLemmaIfNeeded(lemma_rows[i], lemma_rows, answer), lemma_rows)
        /\ UNCHANGED << ingestion, concurrent, dictionary, reading, sanitizing >>

EnrichInit ==
    NoIngestion /\ NoWorkers /\ NoLookups /\ NoSanitizing /\ NoReading /\ NoEnriching

EnrichNext ==
    \/ \E group \in RowGroups, answer \in SourceAnswers : SaveLemmaRow(group, answer)
    \/ \E i \in 1 .. MaxRows, answer \in SourceAnswers, swipe \in BOOLEAN,
          others_updated \in BOOLEAN :
           EnrichLemma(i, answer, swipe, others_updated)

SpecEnrich == EnrichInit /\ [][EnrichNext]_vars

\* C26: when enrichment merges grammar attributes into a lemma's grammar, a
\* key that already has a non-empty value keeps it: the Lemma row's keys on
\* a read path, and on the resolver's side the keys of the grammar that the
\* store gave to the result.
GrammarMergeFillsGaps ==
    [][/\ dict_info'.caller = "read"
            => \A i \in 1 .. Len(lemma_rows) :
                   \A key \in DOMAIN lemma_rows[i].morphology :
                       Populated(key, lemma_rows[i].morphology[key])
                           => /\ key \in DOMAIN lemma_rows'[i].morphology
                              /\ lemma_rows'[i].morphology[key]
                                     = lemma_rows[i].morphology[key]
       /\ dict_info' # dict_info
            => \A key \in DOMAIN dict_info'.stored :
                   Populated(key, dict_info'.stored[key])
                       => /\ key \in DOMAIN dict_info'.grammar
                          /\ dict_info'.grammar[key] = dict_info'.stored[key]
      ]_vars


\* The keys of the morphological breakdown.
BreakdownKeys == {"root", "prefixes", "suffixes", "derivations", "inflections"}

\* C27: after any sequence of ingestions and read-path enrichments, no Lemma
\* row's stored morphology holds a key of the morphological breakdown.
NoBreakdownKeysStored ==
    \A i \in 1 .. Len(lemma_rows) :
        DOMAIN lemma_rows[i].morphology \cap BreakdownKeys = {}

\* A read path has filled a row's morphology from a grammar that holds a
\* breakdown key.
FilledFromGrammarWithRoot ==
    /\ dict_info.caller = "read"
    /\ "root" \in DOMAIN dict_info.grammar
    /\ \E i \in 1 .. Len(lemma_rows) :
           /\ "conjugation" \in DOMAIN lemma_rows[i].morphology
           /\ lemma_rows[i].morphology["conjugation"] = dict_info.grammar["conjugation"]
           /\ lemma_rows[i].morphology["conjugation"] = "1st (-are)"


\* C28: once a document has completed, every Lemma row created or updated
\* for one of its lemma groups has a Token row of the document, whatever the
\* capitalization of the group's canonical form, so that the lemma is in the
\* document's vocabulary list.
EveryLemmaInVocabulary ==
    \A b \in BookIds :
        books[b].processing_status = "completed"
            => \A l \in 1 .. Len(lemmas) :
                   (\E e \in lemmas[l].src : e[1] = b) => l \in BookVocabulary(b)


\* No two of the rows share the lemma text and the language.
UniqueRows(rows) ==
    \A i, j \in 1 .. Len(rows) :
        (rows[i].lemma = rows[j].lemma /\ rows[i].language = rows[j].language)
            => i = j

\* C29: read-path enrichment preserves the uniqueness of the lemmas: a
\* vocabulary read or background enrichment that starts from Lemma rows of
\* which no two share the lemma text and the language leaves such rows.
EnrichmentKeepsLemmasUnique ==
    [][(dict_info'.caller = "read" /\ UniqueRows(lemma_rows))
          => UniqueRows(lemma_rows')]_vars


\* get_upload_status, lines 220-247: the progress percentage the status
\* endpoint derives from a Book row.  The estimate int(total_words * 0.07)
\* and the truncation of the sum are computed in integers.
GetUploadStatusProgress(book) ==
    CASE book.processing_status = "completed" -> 100
      [] book.processing_status = "failed" -> 0
      [] book.processing_status = "processing" ->
            IF book.unique_lemmas > 0
            THEN IF book.total_words > 0
                 THEN LET estimated_unique_lemmas ==
                              Max((book.total_words * 7) \div 100, book.unique_lemmas)
                          saving_progress ==
                              Min((70 * book.unique_lemmas)
                                      \div Max(estimated_unique_lemmas, 1), 70)
                      IN  Min(30 + saving_progress, 99)
                 ELSE 50
            ELSE 30
      [] OTHER -> 0

\* The status endpoint shows less than 100 percent for every book of bks
\* that is not completed.
BelowHundred(bks) ==
    \A b \in 1 .. Len(bks) :
        bks[b].processing_status # "completed" => GetUploadStatusProgress(bks[b]) < 100

\* C30: while a document is processing, Book.unique_lemmas and the progress
\* percentage of the status endpoint never decrease from one read to the
\* next, and the percentage stays below 100 until the status is completed.
ProgressNeverDecreases ==
    [][/\ \A b \in 1 .. Len(books) :
              (/\ books[b].processing_status = "processing"
               /\ books'[b].processing_status = "processing")
                  => /\ books'[b].unique_lemmas >= books[b].unique_lemmas
                     /\ GetUploadStatusProgress(books'[b])
                            >= GetUploadStatusProgress(books[b])
       /\ BelowHundred(books')
      ]_vars

====
